---- MODULE Spec2Model ----
(***************************************************************************)
(* Model of the bitcoinsimple HTTP gateways.                               *)
(*                                                                         *)
(*   btc1.py  the cached, rate-limited gateway (FastAPI + slowapi + Redis) *)
(*   main.py  the uncached variant of the same handlers                    *)
(*                                                                         *)
(* Every handler of btc1.py is an `async def` whose body only makes        *)
(* blocking calls (requests.get, pycoingecko, redis): it never yields to   *)
(* the event loop, so under the single uvicorn process of btc1.py:30 a     *)
(* handler runs from its first line to its return without interleaving.    *)
(* One action of the model is therefore one whole request: rate-limit      *)
(* check, cache lookup, upstream calls, transform, cache write, response.  *)
(*                                                                         *)
(* Time is the wall clock in seconds.  The upstream providers, the Redis   *)
(* server and the clock are the environment: the outcome of every upstream *)
(* call and the availability of Redis for writes are chosen               *)
(* nondeterministically for every request.                                  *)
(***************************************************************************)
EXTENDS Integers, Sequences, FiniteSets, TLC

VARIABLES now, cache, limits, last, nreq, procs

\* The polling price service of app.py: the global `price` (app.py:5), the lock
\* (app.py:6), the updater thread (where it is in update_price and its local p),
\* the answer the upstream would give at this moment, and the body of the last
\* /price answer.
VARIABLES app_price, lock, updater, upstream, returned

gateway == <<now, cache, limits, last, nreq, procs>>

service == <<app_price, lock, updater, upstream, returned>>

vars == <<now, cache, limits, last, nreq, procs, app_price, lock, updater, upstream, returned>>

(***************************************************************************)
(* Bounds of the model.                                                    *)
(***************************************************************************)
\* Number of requests a behaviour serves.
MaxRequests == 2

(***************************************************************************)
(* Program constants.                                                      *)
(***************************************************************************)
HALVING_INTERVAL == 210000
BLOCK_TIME_MIN == 10
\* "100/15minutes": amount and window length in seconds.
LIMIT_AMOUNT == 100
LIMIT_WINDOW == 900
\* TTL argument of each redis_client.setex call.
PRICE_TTL == 10
BLOCK_TTL == 3600
BLOCK_HASH_TTL == 3600
STATS_TTL == 60
HISTORICAL_TTL == 86400
MEMPOOL_TTL == 10
HALVING_TTL == 600
FEES_TTL == 60
\* balance_sats / 1e8
SATS_PER_BTC == 100000000
\* 50 / (2 ** epoch)
BASE_SUBSIDY == 50

(***************************************************************************)
(* Strings.  Request parameters that the code parses character by          *)
(* character (dates, the /block path segment) are sequences of one-        *)
(* character strings; Str joins them into the string the code formats      *)
(* into cache keys and URLs.                                               *)
(***************************************************************************)
Digits == {"0", "1", "2", "3", "4", "5", "6", "7", "8", "9"}

DigitVal(ch) ==
  CASE ch = "0" -> 0 [] ch = "1" -> 1 [] ch = "2" -> 2 [] ch = "3" -> 3
    [] ch = "4" -> 4 [] ch = "5" -> 5 [] ch = "6" -> 6 [] ch = "7" -> 7
    [] ch = "8" -> 8 [] ch = "9" -> 9

RECURSIVE Str(_)
Str(s) == IF s = <<>> THEN "" ELSE Head(s) \o Str(Tail(s))

AllDigits(s) == s # <<>> /\ \A i \in 1..Len(s) : s[i] \in Digits

RECURSIVE ToInt(_)
\* int("...") of a non-empty digit sequence
ToInt(s) == IF s = <<>> THEN 0 ELSE 10 * ToInt(SubSeq(s, 1, Len(s) - 1)) + DigitVal(s[Len(s)])

\* str.lower() on the fiat codes the clients send
lower(s) ==
  CASE s = "USD" -> "usd"
    [] s = "Usd" -> "usd"
    [] s = "EUR" -> "eur"
    [] OTHER -> s

\* f"{n:02d}" as strftime's %d and %m render it
Pad2(n) == IF n < 10 THEN "0" \o ToString(n) ELSE ToString(n)

RECURSIVE split(_, _)
\* str.split(sep): the list of the pieces between the separators
split(s, sep) ==
  IF \A i \in 1..Len(s) : s[i] # sep THEN <<s>>
  ELSE LET i == CHOOSE j \in 1..Len(s) : s[j] = sep /\ \A k \in 1..(j - 1) : s[k] # sep
       IN <<SubSeq(s, 1, i - 1)>> \o split(SubSeq(s, i + 1, Len(s)), sep)

(***************************************************************************)
(* datetime.fromisoformat and strftime("%d-%m-%Y") (btc1.py:280-281).      *)
(* fromisoformat accepts YYYY-MM-DD and also YYYY-MM-DD followed by any    *)
(* one separator character and a time HH, HH:MM or HH:MM:SS; this is the   *)
(* grammar common to every Python version that has the function.           *)
(***************************************************************************)
IsLeap(y) == (y % 4 = 0 /\ y % 100 # 0) \/ y % 400 = 0

DaysInMonth(y, m) ==
  IF m = 2 THEN (IF IsLeap(y) THEN 29 ELSE 28)
  ELSE IF m \in {4, 6, 9, 11} THEN 30 ELSE 31

DatePartOk(s) ==
  /\ Len(s) = 10
  /\ s[5] = "-" /\ s[8] = "-"
  /\ AllDigits(SubSeq(s, 1, 4)) /\ AllDigits(SubSeq(s, 6, 7)) /\ AllDigits(SubSeq(s, 9, 10))
  /\ LET y == ToInt(SubSeq(s, 1, 4))
         m == ToInt(SubSeq(s, 6, 7))
         d == ToInt(SubSeq(s, 9, 10))
     IN y >= 1 /\ m \in 1..12 /\ d >= 1 /\ d <= DaysInMonth(y, m)

TimePartOk(s) ==
  /\ Len(s) \in {2, 5, 8}
  /\ AllDigits(SubSeq(s, 1, 2)) /\ ToInt(SubSeq(s, 1, 2)) <= 23
  /\ Len(s) >= 5 => (s[3] = ":" /\ AllDigits(SubSeq(s, 4, 5)) /\ ToInt(SubSeq(s, 4, 5)) <= 59)
  /\ Len(s) = 8 => (s[6] = ":" /\ AllDigits(SubSeq(s, 7, 8)) /\ ToInt(SubSeq(s, 7, 8)) <= 59)

\* TRUE when datetime.fromisoformat(s) returns, FALSE when it raises ValueError
fromisoformat_ok(s) ==
  \/ DatePartOk(s)
  \/ Len(s) > 11 /\ DatePartOk(SubSeq(s, 1, 10)) /\ TimePartOk(SubSeq(s, 12, Len(s)))

\* the date of the datetime fromisoformat returns
fromisoformat(s) ==
  [year |-> ToInt(SubSeq(s, 1, 4)), month |-> ToInt(SubSeq(s, 6, 7)), day |-> ToInt(SubSeq(s, 9, 10))]

\* a year in four digits, zero-filled
Pad4(n) ==
  IF n < 10 THEN "000" \o ToString(n)
  ELSE IF n < 100 THEN "00" \o ToString(n)
  ELSE IF n < 1000 THEN "0" \o ToString(n)
  ELSE ToString(n)

\* strftime's %Y is the C library's: it renders the year in four digits, zero-padded,
\* or in as many digits as the year has (glibc).  The two differ below year 1000.
YearStyles == {"zero_padded", "unpadded"}

YearStylesFor(s) ==
  IF fromisoformat_ok(s) /\ fromisoformat(s).year < 1000 THEN YearStyles ELSE {"zero_padded"}

\* dt.strftime("%d-%m-%Y")
strftime_dmy(dt, libc) ==
  Pad2(dt.day) \o "-" \o Pad2(dt.month) \o "-"
    \o (IF libc = "unpadded" THEN ToString(dt.year) ELSE Pad4(dt.year))

\* iso_now(): the clock rendered as text, "Z" appended
iso_now(t) == ToString(t) \o "Z"

(***************************************************************************)
(* json.dumps / json.loads (btc1.py:87,97).  A serialized object is the    *)
(* sequence of its (key, value) members in the order the dict holds them;  *)
(* loads rebuilds the mapping from the members.                            *)
(***************************************************************************)
json_dumps(obj, fields) == [i \in 1..Len(fields) |-> <<fields[i], obj[fields[i]]>>]

json_loads(s) ==
  [k \in {s[i][1] : i \in 1..Len(s)} |->
     s[CHOOSE i \in 1..Len(s) : s[i][1] = k /\ \A j \in (i + 1)..Len(s) : s[j][1] # k][2]]

(***************************************************************************)
(* The Redis server behind redis_client (btc1.py:41-49).  cache maps each  *)
(* stored key to its value and the time its TTL ends.  GET answers None    *)
(* (here: the empty sequence) for a key that is absent or expired.         *)
(***************************************************************************)
None == <<>>

redis_get(c, t, key) ==
  IF key \in DOMAIN c /\ c[key].exp > t THEN c[key].val ELSE None

\* Fault: SET without an expiry -- the entry outlives every TTL of the gateway.
redis_setex_persist(c, t, key, ttl, val) ==
  [k \in (DOMAIN c) \cup {key} |->
     IF k = key THEN [val |-> val, exp |-> t + 1000000] ELSE c[k]]

\* Fault: the write goes to a prefixed key that no lookup reads.
redis_setex_prefixed(c, t, key, ttl, val) ==
  [k \in (DOMAIN c) \cup {"cache:" \o key} |->
     IF k = "cache:" \o key THEN [val |-> val, exp |-> t + ttl] ELSE c[k]]

redis_setex(c, t, key, ttl, val) ==
  [k \in (DOMAIN c) \cup {key} |-> IF k = key THEN [val |-> val, exp |-> t + ttl] ELSE c[k]]

\* Keys whose TTL has ended are gone.
redis_expire(c, t) == [k \in {x \in DOMAIN c : c[x].exp > t} |-> c[k]]

\* Fault: the test of the lookup never passes (the entry is fetched and ignored).
truthy_never(cached) == FALSE

\* `if cached:` -- None and the empty string are false
truthy(cached) == cached # None

(***************************************************************************)
(* slowapi's Limiter over the in-memory fixed-window storage of `limits`   *)
(* (btc1.py:36-38).  A counter is kept per (client address, request path); *)
(* its window opens at the first counted request and lasts LIMIT_WINDOW    *)
(* seconds.  Every checked request increments the counter, and is admitted *)
(* when the incremented counter does not exceed LIMIT_AMOUNT.              *)
(***************************************************************************)
get_remote_address(client) == client

limit_key(client, path) == <<get_remote_address(client), path>>

storage_get(lim, key, t) ==
  IF key \in DOMAIN lim /\ lim[key].exp > t THEN lim[key].n ELSE 0

storage_incr(lim, key, t) ==
  LET n == storage_get(lim, key, t)
  IN [k \in (DOMAIN lim) \cup {key} |->
        IF k = key THEN [n |-> n + 1, exp |-> IF n = 0 THEN t + LIMIT_WINDOW ELSE lim[key].exp]
        ELSE lim[k]]

\* Fault: the boundary compared with < (the request that reaches the amount is refused).
limiter_hit_strict(lim, key, t) == storage_incr(lim, key, t)[key].n < LIMIT_AMOUNT

\* FixedWindowRateLimiter.hit: the counter after the increment against the amount
limiter_hit(lim, key, t) == storage_incr(lim, key, t)[key].n <= LIMIT_AMOUNT

storage_expire(lim, t) == [k \in {x \in DOMAIN lim : lim[x].exp > t} |-> lim[k]]

(***************************************************************************)
(* What a handler produces: the HTTP status and body, the upstream calls   *)
(* it made (in order), the cache operations it made (in order) and the     *)
(* cache it leaves.                                                        *)
(***************************************************************************)
Result(status, body, calls, ops, c) ==
  [status |-> status, body |-> body, calls |-> calls, ops |-> ops, cache |-> c]

\* raise HTTPException(status, detail)
HTTPException(status, detail, calls, ops, c) ==
  Result(status, [detail |-> detail], calls, ops, c)

\* an exception no except clause of the handler catches: the server answers 500
Unhandled(exc, calls, ops, c) ==
  Result(500, [detail |-> "Internal Server Error", exception |-> exc], calls, ops, c)

\* _rate_limit_exceeded_handler: the 429 answer
RateLimited(c) ==
  Result(429, [error |-> "Rate limit exceeded: 100 per 15 minute"], <<>>, <<>>, c)

\* request validation failure of a path or query parameter
Unprocessable(c) ==
  Result(422, [detail |-> "value is not a valid integer"], <<>>, <<>>, c)

OpGet(key) == <<"get", key, 0>>
OpSetex(key, ttl) == <<"setex", key, ttl>>

\* Fault: the lookup as GETEX -- a hit pushes the expiry of the entry back.
CacheHit_extend(c, key, cached) ==
  Result(200, json_loads(cached), <<>>, <<OpGet(key)>>, [c EXCEPT ![key].exp = @ + 10])

\* `cached = redis_client.get(cache_key); if cached: return json.loads(cached)`
CacheHit(c, key, cached) == Result(200, json_loads(cached), <<>>, <<OpGet(key)>>, c)

\* Fault: the response is returned without the setex that stores it.
StoreAndReturn_unstored(c, t, key, ttl, response, fields, calls, redis) ==
  Result(200, response, calls, <<OpGet(key)>>, c)

\* `redis_client.setex(cache_key, ttl, json.dumps(response)); return response`
\* setex raises a RedisError when the server refuses writes; no handler catches it
\* by name.
StoreAndReturn(c, t, key, ttl, response, fields, calls, redis) ==
  IF redis = "up"
  THEN Result(200, response, calls, <<OpGet(key), OpSetex(key, ttl)>>,
              redis_setex(c, t, key, ttl, json_dumps(response, fields)))
  ELSE Unhandled("RedisError", calls, <<OpGet(key), OpSetex(key, ttl)>>, c)

(***************************************************************************)
(* The upstream providers, as the sets of outcomes one call can have.      *)
(* A requests.get call either answers 2xx with a payload ("ok"), answers   *)
(* a non-2xx status ("http_error": raise_for_status raises HTTPError) or   *)
(* fails in transport ("timeout"); HTTPError and the transport errors are  *)
(* all requests.RequestException.  A pycoingecko call returns the payload, *)
(* raises RequestException (transport) or raises ValueError (the provider  *)
(* answered an error status with a JSON body).                             *)
(***************************************************************************)
SupportedFiat == {"usd", "eur"}
PriceQuotes == {64000}

HttpFail == {[k |-> "timeout"], [k |-> "http_error"]}
CgFail == {[k |-> "RequestException"], [k |-> "ValueError"]}

Failed(o) == o.k # "ok"

\* the "bitcoin" object of /simple/price for one vs_currency
CgQuote(f, p, with_change) ==
  IF f \notin SupportedFiat THEN <<>>
  ELSE IF with_change THEN (f :> p) @@ ((f \o "_24h_change") :> 2)
  ELSE (f :> p)

CgPriceOutcomes(vs, with_change) ==
  {[k |-> "ok", data |-> [bitcoin |-> CgQuote(lower(vs), p, with_change)]] : p \in PriceQuotes}
    \cup CgFail

AddressOutcomes ==
  {[k |-> "ok", data |-> [chain_stats |-> [funded_txo_sum |-> 7000,
                                           spent_txo_sum |-> 2000,
                                           tx_count |-> 3]]]} \cup HttpFail

TxOutcomes ==
  {[k |-> "ok", data |-> [status |-> [confirmed |-> TRUE, block_height |-> 699990,
                                      block_time |-> 1631333672],
                          vout |-> <<[value |-> 5000], [value |-> 2500]>>, fee |-> 300]],
   [k |-> "ok", data |-> [status |-> [confirmed |-> FALSE],
                          vout |-> <<[value |-> 5000], [value |-> 2500]>>, fee |-> 300]]}
    \cup HttpFail

\* the text of /blocks/tip/height
TipOutcomes == {[k |-> "ok", text |-> <<"7", "0", "0", "0", "0", "0">>]} \cup HttpFail

BlockHeightOutcomes == {[k |-> "ok", text |-> "0000000000000000000590fc"]} \cup HttpFail

BlockOutcomes ==
  {[k |-> "ok", data |-> [height |-> 700000, timestamp |-> 1631333672, tx_count |-> 1276,
                          extras |-> [pool_name |-> "Unknown"]]]} \cup HttpFail

CoinOutcomes == {[k |-> "ok", data |-> [market_data |-> [circulating_supply |-> 19500000]]]} \cup CgFail

ChartOutcomes == {[k |-> "ok", data |-> [values |-> <<[x |-> 1, y |-> 500]>>]]} \cup HttpFail

MempoolOutcomes ==
  {[k |-> "ok", data |-> [count |-> 4000, vsize |-> 2000000, total_fee |-> 9000000,
                          fee_histogram |-> <<<<12, 50000>>>>]]} \cup HttpFail

\* /coins/bitcoin/history: the provider omits market_data for a date it has no data for
HistoryOutcomes ==
  {[k |-> "ok", data |-> [market_data |-> [current_price |-> [usd |-> 29000],
                                           market_cap |-> [usd |-> 540000],
                                           total_volume |-> [usd |-> 43000]]]],
   [k |-> "ok", data |-> [id |-> "bitcoin"]]} \cup CgFail

FeeOutcomes == {[k |-> "ok", data |-> ("1" :> 25) @@ ("3" :> 20) @@ ("6" :> 12)]} \cup HttpFail

\* Redis accepts writes ("up") or refuses them ("readonly": a replica, or a server at
\* its memory limit); reads are served in both.
RedisStates == {"up", "readonly"}

(***************************************************************************)
(* Arithmetic of the transforms.  Floats are kept as exact fractions.      *)
(***************************************************************************)
Frac(n, d) == [num |-> n, den |-> d]

RECURSIVE Pow2(_)
Pow2(n) == IF n = 0 THEN 1 ELSE 2 * Pow2(n - 1)

\* Fault: the epoch rounded up (the reward halves one block after an interval starts).
reward_rounded_up(height) ==
  Frac(BASE_SUBSIDY, Pow2((height + HALVING_INTERVAL - 1) \div HALVING_INTERVAL))

\* 50 / (2 ** (height // HALVING_INTERVAL)), for height >= 0
reward(height) == Frac(BASE_SUBSIDY, Pow2(height \div HALVING_INTERVAL))

RECURSIVE sum_values(_)
\* sum(vout["value"] for vout in data["vout"])
sum_values(vout) == IF vout = <<>> THEN 0 ELSE Head(vout).value + sum_values(Tail(vout))

\* dict.get(key, default)
dict_get(d, key, default) == IF key \in DOMAIN d THEN d[key] ELSE default

(***************************************************************************)
(* btc1.py: the handlers.  Each takes the cache, the clock, its request    *)
(* parameters and the outcomes u the environment has chosen for the calls  *)
(* it may make, and follows the code line by line.                         *)
(***************************************************************************)
root(c) ==
  Result(200, [endpoints |-> <<"/price", "/price/{fiat}", "/balance/{address}", "/tx/{txid}",
                               "/block/{height}", "/block/{hash}", "/stats",
                               "/historical/price?date=YYYY-MM-DD", "/mempool", "/halving",
                               "/fees">>], <<>>, <<>>, c)

PriceFields(price_key) == <<"price_" \o price_key, "change_24h_percent", "timestamp", "source">>

get_price(c, t, fiat, u) ==
  LET cache_key == "price:" \o lower(fiat)
      cached == redis_get(c, t, cache_key)
      calls == <<"cg.get_price:" \o fiat>>
      price_key == lower(fiat)
  IN IF truthy(cached) THEN CacheHit(c, cache_key, cached)
     ELSE IF Failed(u.cg) THEN Unhandled(u.cg.k, calls, <<OpGet(cache_key)>>, c)
     ELSE IF price_key \notin DOMAIN u.cg.data.bitcoin
               \/ (price_key \o "_24h_change") \notin DOMAIN u.cg.data.bitcoin
     THEN HTTPException(400, "Invalid fiat currency", calls, <<OpGet(cache_key)>>, c)
     ELSE LET response == (("price_" \o price_key) :> u.cg.data.bitcoin[price_key])
                            @@ ("change_24h_percent" :> u.cg.data.bitcoin[price_key \o "_24h_change"])
                            @@ ("timestamp" :> iso_now(t))
                            @@ ("source" :> "coingecko")
          IN StoreAndReturn(c, t, cache_key, PRICE_TTL, response, PriceFields(price_key),
                            calls, u.redis)

get_price_default(c, t, u) == get_price(c, t, "usd", u)

\* Fault: get_balance given the cache-aside wrapping of its neighbours.
get_balance_cached(c, t, address, u) ==
  LET cache_key == "balance:" \o address
      cached == redis_get(c, t, cache_key)
      call1 == "GET https://blockstream.info/api/address/" \o address
      call2 == "cg.get_price:usd"
      ops == <<OpGet(cache_key)>>
  IN IF truthy(cached) THEN CacheHit(c, cache_key, cached)
     ELSE IF Failed(u.addr) THEN HTTPException(400, "Invalid address", <<call1>>, ops, c)
     ELSE IF u.cg.k = "RequestException"
     THEN HTTPException(400, "Invalid address", <<call1, call2>>, ops, c)
     ELSE IF u.cg.k = "ValueError" THEN Unhandled("ValueError", <<call1, call2>>, ops, c)
     ELSE IF "usd" \notin DOMAIN u.cg.data.bitcoin
     THEN Unhandled("KeyError", <<call1, call2>>, ops, c)
     ELSE LET stats == u.addr.data.chain_stats
              balance_sats == stats.funded_txo_sum - stats.spent_txo_sum
              price == u.cg.data.bitcoin["usd"]
              response == [address |-> address,
                           balance_btc |-> Frac(balance_sats, SATS_PER_BTC),
                           balance_usd |-> Frac(balance_sats * price, SATS_PER_BTC),
                           tx_count |-> stats.tx_count,
                           last_tx |-> "N/A"]
          IN StoreAndReturn(c, t, cache_key, 60, response,
                            <<"address", "balance_btc", "balance_usd", "tx_count", "last_tx">>,
                            <<call1, call2>>, "up")

get_balance(c, t, address, u) ==
  LET call1 == "GET https://blockstream.info/api/address/" \o address
      call2 == "cg.get_price:usd"
  IN IF Failed(u.addr) THEN HTTPException(400, "Invalid address", <<call1>>, <<>>, c)
     ELSE IF u.cg.k = "RequestException"
     THEN HTTPException(400, "Invalid address", <<call1, call2>>, <<>>, c)
     ELSE IF u.cg.k = "ValueError" THEN Unhandled("ValueError", <<call1, call2>>, <<>>, c)
     ELSE IF "usd" \notin DOMAIN u.cg.data.bitcoin
     THEN Unhandled("KeyError", <<call1, call2>>, <<>>, c)
     ELSE LET stats == u.addr.data.chain_stats
              balance_sats == stats.funded_txo_sum - stats.spent_txo_sum
              price == u.cg.data.bitcoin["usd"]
          IN Result(200, [address |-> address,
                          balance_btc |-> Frac(balance_sats, SATS_PER_BTC),
                          balance_usd |-> Frac(balance_sats * price, SATS_PER_BTC),
                          tx_count |-> stats.tx_count,
                          last_tx |-> "N/A"],
                    <<call1, call2>>, <<>>, c)

get_tx(c, t, txid, u) ==
  LET call1 == "GET https://blockstream.info/api/tx/" \o txid
      call2 == "GET https://blockstream.info/api/blocks/tip/height"
  IN IF Failed(u.tx) THEN HTTPException(400, "Invalid txid", <<call1>>, <<>>, c)
     ELSE LET data == u.tx.data
              status == data.status
              calls == IF status.confirmed THEN <<call1, call2>> ELSE <<call1>>
          IN IF status.confirmed /\ Failed(u.tip)
             THEN HTTPException(400, "Invalid txid", calls, <<>>, c)
             ELSE LET confirmations == IF status.confirmed
                                       THEN ToInt(u.tip.text) - status.block_height + 1
                                       ELSE 0
                  IN Result(200, [txid |-> txid,
                                  block_height |-> dict_get(status, "block_height", 0),
                                  confirmations |-> confirmations,
                                  fee_btc |-> Frac(data.fee, SATS_PER_BTC),
                                  value_btc |-> Frac(sum_values(data.vout), SATS_PER_BTC),
                                  timestamp |-> IF dict_get(status, "block_time", 0) # 0
                                                THEN ToString(status.block_time) \o "Z"
                                                ELSE "N/A"],
                            calls, <<>>, c)

BlockFields == <<"height", "hash", "timestamp", "miner", "tx_count", "reward_btc">>

get_block(c, t, height, u) ==
  LET cache_key == "block:height:" \o ToString(height)
      cached == redis_get(c, t, cache_key)
      call1 == "GET https://blockstream.info/api/block-height/" \o ToString(height)
  IN IF truthy(cached) THEN CacheHit(c, cache_key, cached)
     ELSE IF Failed(u.bh)
     THEN HTTPException(400, "Invalid block height", <<call1>>, <<OpGet(cache_key)>>, c)
     ELSE LET block_hash == u.bh.text
              calls == <<call1, "GET https://blockstream.info/api/block/" \o block_hash>>
          IN IF Failed(u.blk)
             THEN HTTPException(400, "Invalid block height", calls, <<OpGet(cache_key)>>, c)
             ELSE LET data == u.blk.data
                      response == [height |-> height,
                                   hash |-> block_hash,
                                   timestamp |-> ToString(data.timestamp) \o "Z",
                                   miner |-> dict_get(dict_get(data, "extras", <<>>),
                                                      "pool_name", "Unknown"),
                                   tx_count |-> data.tx_count,
                                   reward_btc |-> reward(height)]
                  IN StoreAndReturn(c, t, cache_key, BLOCK_TTL, response, BlockFields,
                                    calls, u.redis)

get_block_by_hash(c, t, hash, u) ==
  LET cache_key == "block:hash:" \o hash
      cached == redis_get(c, t, cache_key)
      calls == <<"GET https://blockstream.info/api/block/" \o hash>>
  IN IF truthy(cached) THEN CacheHit(c, cache_key, cached)
     ELSE IF Failed(u.blk)
     THEN HTTPException(400, "Invalid block hash", calls, <<OpGet(cache_key)>>, c)
     ELSE LET data == u.blk.data
              response == [height |-> data.height,
                           hash |-> hash,
                           timestamp |-> ToString(data.timestamp) \o "Z",
                           miner |-> dict_get(dict_get(data, "extras", <<>>),
                                              "pool_name", "Unknown"),
                           tx_count |-> data.tx_count,
                           reward_btc |-> reward(data.height)]
          IN StoreAndReturn(c, t, cache_key, BLOCK_HASH_TTL, response, BlockFields,
                            calls, u.redis)

StatsFields == <<"hashrate_th_s", "difficulty", "circulating_supply_btc", "mempool_size_mb",
                 "timestamp">>

get_stats(c, t, u) ==
  LET cache_key == "stats"
      cached == redis_get(c, t, cache_key)
      ops == <<OpGet(cache_key)>>
      callA == "cg.get_coin_by_id:bitcoin"
      callB == "GET https://api.blockchain.info/charts/hash-rate"
      callC == "GET https://api.blockchain.info/charts/difficulty"
      callD == "GET https://blockstream.info/api/mempool"
      err(calls) == HTTPException(500, "Error fetching stats", calls, ops, c)
  IN IF truthy(cached) THEN CacheHit(c, cache_key, cached)
     ELSE IF u.coin.k = "ValueError" THEN Unhandled("ValueError", <<callA>>, ops, c)
     ELSE IF u.coin.k = "RequestException" THEN err(<<callA>>)
     ELSE IF u.hr.k = "timeout" THEN err(<<callA, callB>>)
     ELSE IF u.diff.k = "timeout" THEN err(<<callA, callB, callC>>)
     ELSE IF u.hr.k = "http_error" \/ u.diff.k = "http_error" THEN err(<<callA, callB, callC>>)
     ELSE IF Failed(u.mem) THEN err(<<callA, callB, callC, callD>>)
     ELSE LET hr_values == u.hr.data.values
              diff_values == u.diff.data.values
              response == [hashrate_th_s |-> hr_values[Len(hr_values)].y,
                           difficulty |-> diff_values[Len(diff_values)].y,
                           circulating_supply_btc |-> u.coin.data.market_data.circulating_supply,
                           mempool_size_mb |-> Frac(u.mem.data.vsize, 1000000),
                           timestamp |-> iso_now(t)]
          IN StoreAndReturn(c, t, cache_key, STATS_TTL, response, StatsFields,
                            <<callA, callB, callC, callD>>, u.redis)

HistoricalFields == <<"date", "price_usd", "market_cap_usd", "volume_usd">>

get_historical_price(c, t, date, u) ==
  IF ~fromisoformat_ok(date)
  THEN HTTPException(400, "Invalid date format. Use YYYY-MM-DD", <<>>, <<>>, c)
  ELSE LET date_cg == strftime_dmy(fromisoformat(date), u.libc)
           cache_key == "historical_price:" \o Str(date)
           cached == redis_get(c, t, cache_key)
           calls == <<"cg.get_coin_history_by_id:" \o date_cg>>
           err(exc, ops) == HTTPException(500, "Error fetching historical data: " \o exc,
                                          calls, ops, c)
       IN IF truthy(cached) THEN CacheHit(c, cache_key, cached)
          ELSE IF Failed(u.hist) THEN err(u.hist.k, <<OpGet(cache_key)>>)
          ELSE IF "market_data" \notin DOMAIN u.hist.data
          THEN err("KeyError", <<OpGet(cache_key)>>)
          ELSE LET md == u.hist.data.market_data
                   response == [date |-> Str(date),
                                price_usd |-> md.current_price.usd,
                                market_cap_usd |-> md.market_cap.usd,
                                volume_usd |-> md.total_volume.usd]
                   stored == StoreAndReturn(c, t, cache_key, HISTORICAL_TTL, response,
                                            HistoricalFields, calls, u.redis)
               IN \* `except Exception` also catches what setex raises
                  IF stored.status = 200 THEN stored ELSE err("RedisError", stored.ops)

MempoolFields == <<"count", "vsize", "total_fee_btc", "fee_histogram">>

get_mempool(c, t, u) ==
  LET cache_key == "mempool"
      cached == redis_get(c, t, cache_key)
      calls == <<"GET https://blockstream.info/api/mempool">>
  IN IF truthy(cached) THEN CacheHit(c, cache_key, cached)
     ELSE IF Failed(u.mem)
     THEN HTTPException(500, "Error fetching mempool data", calls, <<OpGet(cache_key)>>, c)
     ELSE LET data == u.mem.data
              hist == dict_get(data, "fee_histogram", <<>>)
              response == [count |-> data.count,
                           vsize |-> data.vsize,
                           total_fee_btc |-> Frac(data.total_fee, SATS_PER_BTC),
                           fee_histogram |-> [i \in 1..Len(hist) |->
                                                [fee_rate |-> hist[i][1], vsize |-> hist[i][2]]]]
          IN StoreAndReturn(c, t, cache_key, MEMPOOL_TTL, response, MempoolFields,
                            calls, u.redis)

HalvingFields == <<"current_reward_btc", "next_halving_block", "blocks_remaining",
                   "estimated_date">>

\* Fault: the epoch rounded up (at a halving height the next halving is the height itself).
get_halving_epoch_up(c, t, u) ==
  LET cache_key == "halving"
      cached == redis_get(c, t, cache_key)
      calls == <<"GET https://blockstream.info/api/blocks/tip/height">>
  IN IF truthy(cached) THEN CacheHit(c, cache_key, cached)
     ELSE IF Failed(u.tip)
     THEN HTTPException(500, "Error fetching halving data", calls, <<OpGet(cache_key)>>, c)
     ELSE LET current_height == ToInt(u.tip.text)
              epoch == (current_height + HALVING_INTERVAL - 1) \div HALVING_INTERVAL
              next_halving == epoch * HALVING_INTERVAL
              blocks_remaining == next_halving - current_height
              response == [current_reward_btc |-> Frac(BASE_SUBSIDY, Pow2(epoch)),
                           next_halving_block |-> next_halving,
                           blocks_remaining |-> blocks_remaining,
                           estimated_date |-> iso_now(t + blocks_remaining * BLOCK_TIME_MIN * 60)]
          IN StoreAndReturn(c, t, cache_key, HALVING_TTL, response, HalvingFields,
                            calls, u.redis)

get_halving(c, t, u) ==
  LET cache_key == "halving"
      cached == redis_get(c, t, cache_key)
      calls == <<"GET https://blockstream.info/api/blocks/tip/height">>
  IN IF truthy(cached) THEN CacheHit(c, cache_key, cached)
     ELSE IF Failed(u.tip)
     THEN HTTPException(500, "Error fetching halving data", calls, <<OpGet(cache_key)>>, c)
     ELSE LET current_height == ToInt(u.tip.text)
              epoch == current_height \div HALVING_INTERVAL
              next_halving == (epoch + 1) * HALVING_INTERVAL
              blocks_remaining == next_halving - current_height
              response == [current_reward_btc |-> Frac(BASE_SUBSIDY, Pow2(epoch)),
                           next_halving_block |-> next_halving,
                           blocks_remaining |-> blocks_remaining,
                           estimated_date |-> iso_now(t + blocks_remaining * BLOCK_TIME_MIN * 60)]
          IN StoreAndReturn(c, t, cache_key, HALVING_TTL, response, HalvingFields,
                            calls, u.redis)

FeesFields == <<"fastest_sat_vb", "half_hour_sat_vb", "hour_sat_vb", "minimum_sat_vb">>

\* Fault: get_fees stores an empty estimate before it looks at the upstream answer.
get_fees_store_first(c, t, u) ==
  LET cache_key == "fees"
      cached == redis_get(c, t, cache_key)
      calls == <<"GET https://blockstream.info/api/fee-estimates">>
      data == IF Failed(u.fees) THEN <<>> ELSE u.fees.data
      response == [fastest_sat_vb |-> dict_get(data, "1", 0),
                   half_hour_sat_vb |-> dict_get(data, "3", 0),
                   hour_sat_vb |-> dict_get(data, "6", 0),
                   minimum_sat_vb |-> dict_get(data, "144", 0)]
      stored == StoreAndReturn(c, t, cache_key, FEES_TTL, response, FeesFields, calls, "up")
  IN IF truthy(cached) THEN CacheHit(c, cache_key, cached)
     ELSE IF Failed(u.fees)
     THEN HTTPException(500, "Error fetching fee estimates", calls, stored.ops, stored.cache)
     ELSE stored

get_fees(c, t, u) ==
  LET cache_key == "fees"
      cached == redis_get(c, t, cache_key)
      calls == <<"GET https://blockstream.info/api/fee-estimates">>
  IN IF truthy(cached) THEN CacheHit(c, cache_key, cached)
     ELSE IF Failed(u.fees)
     THEN HTTPException(500, "Error fetching fee estimates", calls, <<OpGet(cache_key)>>, c)
     ELSE LET data == u.fees.data
              response == [fastest_sat_vb |-> dict_get(data, "1", 0),
                           half_hour_sat_vb |-> dict_get(data, "3", 0),
                           hour_sat_vb |-> dict_get(data, "6", 0),
                           minimum_sat_vb |-> dict_get(data, "144", 0)]
          IN StoreAndReturn(c, t, cache_key, FEES_TTL, response, FeesFields, calls, u.redis)

(***************************************************************************)
(* main.py: the uncached variant.  Its handlers take no Request argument,  *)
(* so the limiter has no client address to key a limit on; the variant is  *)
(* modelled by the handler bodies.                                         *)
(***************************************************************************)
main_get_historical_price(c, date, u) ==
  LET parts == split(date, "-")
  IN IF Len(parts) # 3
     THEN HTTPException(400, "Invalid date format (use YYYY-MM-DD)", <<>>, <<>>, c)
     ELSE LET cg_date == Str(parts[3]) \o "-" \o Str(parts[2]) \o "-" \o Str(parts[1])
              calls == <<"cg.get_coin_history_by_id:" \o cg_date>>
          IN IF u.hist.k = "ValueError"
             THEN HTTPException(400, "Invalid date format (use YYYY-MM-DD)", calls, <<>>, c)
             ELSE IF u.hist.k = "RequestException"
             THEN HTTPException(500, "RequestException", calls, <<>>, c)
             ELSE IF "market_data" \notin DOMAIN u.hist.data
             THEN HTTPException(500, "KeyError", calls, <<>>, c)
             ELSE LET market_data == u.hist.data.market_data
                  IN Result(200, [date |-> Str(date),
                                  price_usd |-> market_data.current_price.usd,
                                  volume_24h_usd |-> market_data.total_volume.usd,
                                  market_cap_usd |-> market_data.market_cap.usd],
                            calls, <<>>, c)

main_get_tx(c, txid, u) ==
  LET calls == <<"GET https://blockstream.info/api/tx/" \o txid>>
  IN IF Failed(u.tx) THEN HTTPException(400, "Invalid txid or API error", calls, <<>>, c)
     ELSE LET data == u.tx.data
              status == data.status
              confirmations ==
                IF status.confirmed
                THEN dict_get(status, "block_height", 0)
                       - dict_get(data, "latest_height", status.block_height) + 1
                ELSE 0
          IN Result(200, [txid |-> txid,
                          block_height |-> dict_get(status, "block_height", 0),
                          confirmations |-> confirmations,
                          fee_btc |-> Frac(data.fee, SATS_PER_BTC),
                          value_btc |-> Frac(sum_values(data.vout), SATS_PER_BTC),
                          timestamp |-> IF dict_get(status, "block_time", 0) # 0
                                        THEN ToString(status.block_time) \o "Z"
                                        ELSE "N/A"],
                    calls, <<>>, c)

\* Fault: the status of the height lookup is not checked; the body of an error answer
\* is taken for the hash and the block-detail call is issued with it.
main_get_block_unchecked(c, height, u) ==
  LET call1 == "GET https://blockstream.info/api/block-height/" \o ToString(height)
      err(calls) == HTTPException(400, "Invalid block height or API error", calls, <<>>, c)
  IN IF u.bh.k = "timeout" THEN err(<<call1>>)
     ELSE LET block_hash == IF Failed(u.bh) THEN "Block not found" ELSE u.bh.text
              calls == <<call1, "GET https://blockstream.info/api/block/" \o block_hash>>
          IN IF Failed(u.blk) THEN err(calls)
             ELSE LET data == u.blk.data
                      halvings == height \div HALVING_INTERVAL
                  IN Result(200, [height |-> height,
                                  hash |-> block_hash,
                                  timestamp |-> ToString(data.timestamp) \o "Z",
                                  miner |-> dict_get(dict_get(data, "extras", <<>>),
                                                     "pool_name", "Unknown"),
                                  tx_count |-> data.tx_count,
                                  reward_btc |-> Frac(BASE_SUBSIDY, Pow2(halvings))],
                            calls, <<>>, c)

main_get_block(c, height, u) ==
  LET call1 == "GET https://blockstream.info/api/block-height/" \o ToString(height)
      err(calls) == HTTPException(400, "Invalid block height or API error", calls, <<>>, c)
  IN IF Failed(u.bh) THEN err(<<call1>>)
     ELSE LET block_hash == u.bh.text
              calls == <<call1, "GET https://blockstream.info/api/block/" \o block_hash>>
          IN IF Failed(u.blk) THEN err(calls)
             ELSE LET data == u.blk.data
                      halvings == height \div HALVING_INTERVAL
                  IN Result(200, [height |-> height,
                                  hash |-> block_hash,
                                  timestamp |-> ToString(data.timestamp) \o "Z",
                                  miner |-> dict_get(dict_get(data, "extras", <<>>),
                                                     "pool_name", "Unknown"),
                                  tx_count |-> data.tx_count,
                                  reward_btc |-> Frac(BASE_SUBSIDY, Pow2(halvings))],
                            calls, <<>>, c)

\* The second call of get_mempool and of get_fees has no raise_for_status: a non-2xx
\* answer is parsed like any other.  resp.json() of a body that is not JSON raises
\* requests' JSONDecodeError, a RequestException.
main_get_mempool(c, t, u) ==
  LET call1 == "GET https://blockstream.info/api/mempool"
      call2 == "GET https://blockstream.info/api/fee-estimates"
      err(calls) == HTTPException(500, "API error", calls, <<>>, c)
  IN IF Failed(u.mem) THEN err(<<call1>>)
     ELSE IF u.fees.k \in {"timeout", "http_error_text"} THEN err(<<call1, call2>>)
     ELSE LET data == u.mem.data
              fee_data == u.fees.data
          IN Result(200, [size_tx |-> data.count,
                          size_mb |-> Frac(data.vsize, 1000000),
                          fee_per_kb_sat |-> dict_get(fee_data, "6", 25),
                          timestamp |-> iso_now(t)],
                    <<call1, call2>>, <<>>, c)

main_get_halving(c, t, u) ==
  LET calls == <<"GET https://blockstream.info/api/blocks/tip/height">>
  IN IF Failed(u.tip) THEN HTTPException(500, "API error", calls, <<>>, c)
     ELSE LET current_height == ToInt(u.tip.text)
              halvings_so_far == current_height \div HALVING_INTERVAL
              next_height == (halvings_so_far + 1) * HALVING_INTERVAL
              blocks_left == next_height - current_height
              est_minutes == blocks_left * BLOCK_TIME_MIN
              current_reward == Frac(BASE_SUBSIDY, Pow2(halvings_so_far))
          IN Result(200, [next_halving_height |-> next_height,
                          blocks_remaining |-> blocks_left,
                          estimated_date |-> iso_now(t + est_minutes * 60),
                          current_reward_btc |-> current_reward,
                          next_reward_btc |-> Frac(current_reward.num, 2 * current_reward.den),
                          total_halvings |-> halvings_so_far,
                          timestamp |-> iso_now(t)],
                    calls, <<>>, c)

main_get_fees(c, t, u) ==
  LET call1 == "GET https://blockstream.info/api/fee-estimates"
      call2 == "GET https://blockstream.info/api/mempool"
      err(calls) == HTTPException(500, "API error", calls, <<>>, c)
  IN IF Failed(u.fees) THEN err(<<call1>>)
     ELSE IF u.mem.k \in {"timeout", "http_error_text"} THEN err(<<call1, call2>>)
     ELSE IF "vsize" \notin DOMAIN u.mem.data THEN Unhandled("KeyError", <<call1, call2>>, <<>>, c)
     ELSE LET data == u.fees.data
          IN Result(200, [fast_sat_per_byte |-> dict_get(data, "2", 50),
                          fast_confirm_min |-> 20,
                          medium_sat_per_byte |-> dict_get(data, "6", 25),
                          medium_confirm_min |-> 60,
                          slow_sat_per_byte |-> dict_get(data, "144", 10),
                          slow_confirm_min |-> 1440,
                          mempool_size_mb |-> Frac(u.mem.data.vsize, 1000000),
                          timestamp |-> iso_now(t)],
                    <<call1, call2>>, <<>>, c)

(***************************************************************************)
(* The requests the clients send, and the instants at which they send      *)
(* them: the start, the last second of the price TTL, the seconds before   *)
(* and after the end of the stats TTL, and the second after the end of the *)
(* rate-limit window, all counted from the start.                          *)
(***************************************************************************)
Client1 == "10.0.0.1"
Client2 == "10.0.0.2"
Clients == {Client1, Client2}
FiatInputs == {"USD", "xyz"}
Addresses == {"bc1qw508d6"}
Txids == {"f4184fc596"}
BlockSegments == {<<"7", "0", "0", "0", "0", "0">>, <<"0", "0", "0", "a", "3", "f">>}
DateInputs ==
  {<<"2", "0", "2", "1", "-", "0", "1", "-", "0", "1">>,
   <<"2", "0", "2", "1", "/", "0", "1", "/", "0", "1">>,
   <<"0", "1", "-", "0", "1", "-", "2", "0", "2", "1">>,
   <<"2", "0", "2", "1", "-", "0", "1", "-", "0", "1", "T", "0", "0", ":", "0", "0">>}

Instants == {0, PRICE_TTL - 1, STATS_TTL - 1, STATS_TTL + 1, LIMIT_WINDOW + 1}

NoRequest ==
  [handler |-> "none", client |-> "", path |-> "", arg |-> "", at |-> 0, status |-> 0,
   body |-> <<>>, calls |-> <<>>, ops |-> <<>>]

(***************************************************************************)
(* Server processes.  `uvicorn btc1:app` (btc1.py:30) runs the handlers of *)
(* one process one after the other: they are `async def` and block on      *)
(* every call, so now, cache, limits, last and nreq describe that process  *)
(* and its requests are atomic.  Every further process started from the    *)
(* same module (a second uvicorn, or --workers) talks to the same Redis    *)
(* server at localhost:6379 (btc1.py:41-49) and keeps a Limiter storage of *)
(* its own (btc1.py:36): procs holds, per such process, its limiter        *)
(* storage, the request it is resolving (job) and the last answer it sent  *)
(* (out).  The Redis commands of different processes interleave.           *)
(***************************************************************************)
Workers == {"w1", "w2"}

Idle == [pc |-> "idle"]

NoAnswer == [status |-> 0, body |-> <<>>, ops |-> <<>>, at |-> 0]

IdleProcs == [w \in Workers |-> [limits |-> <<>>, job |-> Idle, out |-> NoAnswer]]

(***************************************************************************)
(* The decorator stack of a route.  @limiter.limit wraps the handler:      *)
(* async_wrapper checks the limit of (client, path) and raises             *)
(* RateLimitExceeded before the handler body runs, or calls the handler.   *)
(***************************************************************************)
\* Fault: the verdict of the limiter is ignored and the handler always runs.
async_wrapper_unchecked(admitted, r, c) == r

async_wrapper(admitted, r, c) == IF admitted THEN r ELSE RateLimited(c)

\* The answer is sent: the cache the handler left and the record of the request.
Respond(handler, client, path, arg, out) ==
  /\ cache' = out.cache
  /\ last' = [handler |-> handler, client |-> client, path |-> path, arg |-> arg, at |-> now,
              status |-> out.status, body |-> out.body, calls |-> out.calls, ops |-> out.ops]
  /\ nreq' = nreq + 1
  /\ UNCHANGED now
  /\ UNCHANGED service

\* A route decorated with @limiter.limit("100/15minutes")
Limited(handler, client, path, arg, r) ==
  LET key == limit_key(client, path)
  IN /\ nreq < MaxRequests
     /\ limits' = storage_incr(limits, key, now)
     /\ UNCHANGED procs
     /\ Respond(handler, client, path, arg,
                async_wrapper(limiter_hit(limits, key, now), r, cache))

\* A route without the decorator, or a request answered before the wrapper runs
Unlimited(handler, client, path, arg, r) ==
  /\ nreq < MaxRequests
  /\ UNCHANGED <<limits, procs>>
  /\ Respond(handler, client, path, arg, r)

(***************************************************************************)
(* The environment answers only the calls a request makes: the outcome of  *)
(* a call that is not reached is NotCalled, and Redis is asked to write    *)
(* only when every upstream call of the request has answered.              *)
(***************************************************************************)
NotCalled == [k |-> "not_called"]

After(reached, outcomes) == IF reached THEN outcomes ELSE {NotCalled}

RedisFor(reached) == IF reached THEN RedisStates ELSE {"up"}

(***************************************************************************)
(* One action per route of btc1.py.                                        *)
(***************************************************************************)
Root(client) == Unlimited("root", client, "/", "", root(cache))

GetPriceDefault(client) ==
  \E o \in CgPriceOutcomes("usd", TRUE) :
    \E rd \in RedisFor(~Failed(o)) :
      Limited("get_price_default", client, "/price", "",
              get_price_default(cache, now, [redis |-> rd, cg |-> o]))

GetPrice(client, fiat) ==
  \E o \in CgPriceOutcomes(fiat, TRUE) :
    \E rd \in RedisFor(~Failed(o)) :
      Limited("get_price", client, "/price/" \o fiat, fiat,
              get_price(cache, now, fiat, [redis |-> rd, cg |-> o]))

GetBalance(client, address) ==
  \E a \in AddressOutcomes :
    \E o \in After(~Failed(a), CgPriceOutcomes("usd", FALSE)) :
      Limited("get_balance", client, "/balance/" \o address, address,
              get_balance(cache, now, address, [addr |-> a, cg |-> o]))

GetTx(client, txid) ==
  \E x \in TxOutcomes :
    \E tip \in After(~Failed(x) /\ x.data.status.confirmed, TipOutcomes) :
      Limited("get_tx", client, "/tx/" \o txid, txid,
              get_tx(cache, now, txid, [tx |-> x, tip |-> tip]))

\* Both /block/{height} and /block/{hash} match any one path segment; the router
\* takes the first registered route that matches, and then validates its parameters.
BlockRoutes == <<"get_block", "get_block_by_hash">>

GetBlock(client, seg) ==
  LET route == Head(BlockRoutes)
      path == "/block/" \o Str(seg)
  IN IF route = "get_block" /\ ~AllDigits(seg)
     THEN Unlimited("get_block", client, path, seg, Unprocessable(cache))
     ELSE \E bh \in After(route = "get_block", BlockHeightOutcomes) :
            \E blk \in After(route # "get_block" \/ ~Failed(bh), BlockOutcomes) :
              \E rd \in RedisFor(~Failed(blk)) :
                IF route = "get_block"
                THEN Limited("get_block", client, path, seg,
                             get_block(cache, now, ToInt(seg),
                                       [redis |-> rd, bh |-> bh, blk |-> blk]))
                ELSE Limited("get_block_by_hash", client, path, seg,
                             get_block_by_hash(cache, now, Str(seg),
                                               [redis |-> rd, blk |-> blk]))

GetStats(client) ==
  \E co \in CoinOutcomes :
    \E hr \in After(~Failed(co), ChartOutcomes) :
      \E df \in After(~Failed(co) /\ hr.k # "timeout", ChartOutcomes) :
        \E mem \in After(~Failed(co) /\ ~Failed(hr) /\ ~Failed(df), MempoolOutcomes) :
          \E rd \in RedisFor(~Failed(mem)) :
            Limited("get_stats", client, "/stats", "",
                    get_stats(cache, now,
                              [redis |-> rd, coin |-> co, hr |-> hr, diff |-> df, mem |-> mem]))

GetHistoricalPrice(client, date) ==
  \E h \in After(fromisoformat_ok(date), HistoryOutcomes), libc \in YearStylesFor(date) :
    \E rd \in RedisFor(~Failed(h)) :
      Limited("get_historical_price", client, "/historical/price", date,
              get_historical_price(cache, now, date,
                                   [redis |-> rd, hist |-> h, libc |-> libc]))

GetMempool(client) ==
  \E mem \in MempoolOutcomes :
    \E rd \in RedisFor(~Failed(mem)) :
      Limited("get_mempool", client, "/mempool", "",
              get_mempool(cache, now, [redis |-> rd, mem |-> mem]))

GetHalving(client) ==
  \E tip \in TipOutcomes :
    \E rd \in RedisFor(~Failed(tip)) :
      Limited("get_halving", client, "/halving", "",
              get_halving(cache, now, [redis |-> rd, tip |-> tip]))

GetFees(client) ==
  \E f \in FeeOutcomes :
    \E rd \in RedisFor(~Failed(f)) :
      Limited("get_fees", client, "/fees", "",
              get_fees(cache, now, [redis |-> rd, fees |-> f]))

(***************************************************************************)
(* main.py: GET /historical/price.                                         *)
(***************************************************************************)
MainGetHistoricalPrice(client, date) ==
  \E h \in After(Len(split(date, "-")) = 3, HistoryOutcomes) :
    Unlimited("main.get_historical_price", client, "/historical/price", date,
              main_get_historical_price(cache, date, [hist |-> h]))

\* what a call answers when the code does not check its status: the payload, a
\* transport failure, an error status with a JSON object as body, an error status with
\* a body that is not JSON
Unchecked(outcomes) ==
  {o \in outcomes : o.k # "http_error"}
    \cup {[k |-> "http_error", data |-> [error |-> "Service Unavailable"]],
          [k |-> "http_error_text"]}

MainGetTx(client, txid) ==
  \E x \in TxOutcomes :
    Unlimited("main.get_tx", client, "/tx/" \o txid, txid,
              main_get_tx(cache, txid, [tx |-> x]))

MainGetBlock(client, seg) ==
  LET path == "/block/" \o Str(seg)
  IN IF ~AllDigits(seg)
     THEN Unlimited("main.get_block", client, path, seg, Unprocessable(cache))
     ELSE \E bh \in BlockHeightOutcomes :
            \E blk \in After(~Failed(bh), BlockOutcomes) :
              Unlimited("main.get_block", client, path, seg,
                        main_get_block(cache, ToInt(seg), [bh |-> bh, blk |-> blk]))

MainGetMempool(client) ==
  \E mem \in MempoolOutcomes :
    \E f \in After(~Failed(mem), Unchecked(FeeOutcomes)) :
      Unlimited("main.get_mempool", client, "/mempool", "",
                main_get_mempool(cache, now, [mem |-> mem, fees |-> f]))

MainGetHalving(client) ==
  \E tip \in TipOutcomes :
    Unlimited("main.get_halving", client, "/halving", "",
              main_get_halving(cache, now, [tip |-> tip]))

MainGetFees(client) ==
  \E f \in FeeOutcomes :
    \E mem \in After(~Failed(f), Unchecked(MempoolOutcomes)) :
      Unlimited("main.get_fees", client, "/fees", "",
                main_get_fees(cache, now, [fees |-> f, mem |-> mem]))

(***************************************************************************)
(* Time passes to a later instant: Redis drops the keys whose TTL ended    *)
(* and the limiter's storage drops the windows that ended.                 *)
(***************************************************************************)
TickTo(t) ==
  /\ nreq < MaxRequests
  /\ t > now
  /\ now' = t
  /\ cache' = redis_expire(cache, t)
  /\ limits' = storage_expire(limits, t)
  /\ procs' = [w \in Workers |-> [procs[w] EXCEPT !.limits = storage_expire(@, t)]]
  /\ UNCHANGED <<last, nreq>>
  /\ UNCHANGED service

Tick == \E t \in Instants : TickTo(t)

(***************************************************************************)
(* app.py: the polling price service.  update_price runs in one thread     *)
(* (started at app.py:26) and loops for ever: fetch the price, store it    *)
(* under the lock, sleep 10 seconds; any exception of the fetch or of the  *)
(* conversion is swallowed (`except: pass`).  /price returns the global    *)
(* price as it is, without the lock.                                       *)
(***************************************************************************)
POLL_SLEEP == 10

\* a number of the JSON answer, as an exact fraction
Number(num, den) == [k |-> "number", num |-> num, den |-> den]

Quotes == {Number(6400055, 100), Number(97123, 1), Number(99, 100)}

\* "usd" present but null, or a text that is no number
NonNumbers == {[k |-> "null"], [k |-> "text"]}

\* requests.get raises, .json() raises, or a subscript raises KeyError
UpstreamFailures ==
  {[k |-> "timeout"], [k |-> "connection_error"], [k |-> "not_json"],
   [k |-> "no_bitcoin"], [k |-> "no_usd"]}

UpstreamAnswers ==
  UpstreamFailures \cup {[k |-> "ok", usd |-> v] : v \in Quotes \cup NonNumbers}

\* int(p) raises TypeError for None and ValueError for a text that is no number
int_raises(p) == p.k # "number"

\* Fault: the price rounded to the nearest integer instead of truncated.
py_int_rounded(p) == (2 * p.num + p.den) \div (2 * p.den)

\* int(p) of a float or an int: the fraction is dropped (towards zero)
py_int(p) == IF p.num >= 0 THEN p.num \div p.den ELSE -((-p.num) \div p.den)

\* Fault: acquire and release written out by hand, the release skipped by the exception.
lock_after_store_leaky(p) == IF int_raises(p) THEN "updater" ELSE "free"

\* `with lock:` releases the lock on the way out, exception or not
lock_after_store(p) == "free"

Unset == [k |-> "unset"]

InitService ==
  /\ app_price = "0"
  /\ lock = "free"
  /\ updater = [pc |-> "not_started", p |-> Unset, timer |-> 0]
  /\ upstream = [k |-> "timeout"]
  /\ returned = "none"

\* threading.Thread(target=update_price, daemon=True).start()
Start ==
  /\ updater.pc = "not_started"
  /\ updater' = [updater EXCEPT !.pc = "get"]
  /\ UNCHANGED <<app_price, lock, upstream, returned>>
  /\ UNCHANGED gateway

\* p = requests.get(..., timeout=5).json()["bitcoin"]["usd"]
Get ==
  /\ updater.pc = "get"
  /\ updater' = IF upstream.k = "ok"
                THEN [updater EXCEPT !.pc = "acquire", !.p = upstream.usd]
                ELSE [updater EXCEPT !.pc = "sleep", !.timer = POLL_SLEEP]
  /\ UNCHANGED <<app_price, lock, upstream, returned>>
  /\ UNCHANGED gateway

\* with lock: (entering)
Acquire ==
  /\ updater.pc = "acquire"
  /\ lock = "free"
  /\ lock' = "updater"
  /\ updater' = [updater EXCEPT !.pc = "store"]
  /\ UNCHANGED <<app_price, upstream, returned>>
  /\ UNCHANGED gateway

\* price = str(int(p))
Store ==
  /\ updater.pc = "store"
  /\ app_price' = IF int_raises(updater.p) THEN app_price ELSE ToString(py_int(updater.p))
  /\ updater' = [updater EXCEPT !.pc = "release"]
  /\ UNCHANGED <<lock, upstream, returned>>
  /\ UNCHANGED gateway

\* with lock: (leaving), then `except: pass` if the conversion raised, then time.sleep(10)
Release ==
  /\ updater.pc = "release"
  /\ lock' = lock_after_store(updater.p)
  /\ updater' = [updater EXCEPT !.pc = "sleep", !.timer = POLL_SLEEP]
  /\ UNCHANGED <<app_price, upstream, returned>>
  /\ UNCHANGED gateway

\* a second of time.sleep(10) passes
SleepTick ==
  /\ updater.pc = "sleep"
  /\ updater.timer > 0
  /\ updater' = [updater EXCEPT !.timer = @ - 1]
  /\ UNCHANGED <<app_price, lock, upstream, returned>>
  /\ UNCHANGED gateway

\* time.sleep(10) returns and the loop starts over
Wake ==
  /\ updater.pc = "sleep"
  /\ updater.timer = 0
  /\ updater' = [updater EXCEPT !.pc = "get"]
  /\ UNCHANGED <<app_price, lock, upstream, returned>>
  /\ UNCHANGED gateway

\* @app.route('/price'): return price
ServePrice ==
  /\ returned' = app_price
  /\ UNCHANGED <<app_price, lock, updater, upstream>>
  /\ UNCHANGED gateway

\* the upstream changes what it would answer
Drift ==
  /\ \E a \in UpstreamAnswers \ {upstream} : upstream' = a
  /\ UNCHANGED <<app_price, lock, updater, returned>>
  /\ UNCHANGED gateway

UpdaterStep == Get \/ Acquire \/ Store \/ Release \/ SleepTick \/ Wake

(***************************************************************************)
(* Spec: the gateway from its start, serving one client on every route.    *)
(***************************************************************************)
Init ==
  /\ now = 0
  /\ cache = <<>>
  /\ limits = <<>>
  /\ last = NoRequest
  /\ nreq = 0
  /\ procs = IdleProcs
  /\ InitService

Next ==
  \/ \E client \in {Client1} : Root(client)
  \/ \E client \in {Client1} : GetPriceDefault(client)
  \/ \E client \in {Client1}, fiat \in FiatInputs : GetPrice(client, fiat)
  \/ \E client \in {Client1}, address \in Addresses : GetBalance(client, address)
  \/ \E client \in {Client1}, txid \in Txids : GetTx(client, txid)
  \/ \E client \in {Client1}, seg \in BlockSegments : GetBlock(client, seg)
  \/ \E client \in {Client1} : GetStats(client)
  \/ \E client \in {Client1}, date \in DateInputs : GetHistoricalPrice(client, date)
  \/ \E client \in {Client1} : GetMempool(client)
  \/ \E client \in {Client1} : GetHalving(client)
  \/ \E client \in {Client1} : GetFees(client)
  \/ \E client \in {Client1}, date \in DateInputs : MainGetHistoricalPrice(client, date)
  \/ Tick

Spec == Init /\ [][Next]_vars

(***************************************************************************)
(* The limiter at its boundary.  Counting a client up to the limit takes   *)
(* LIMIT_AMOUNT requests; the two specifications below start from a state  *)
(* the gateway is in after that many requests less one: within second 0    *)
(* the client 10.0.0.1 has sent LIMIT_AMOUNT - 1 requests to each path and *)
(* every one of them failed upstream, so the cache is still empty and each *)
(* counter of the client stands at LIMIT_AMOUNT - 1 in a window opened at  *)
(* time 0.                                                                 *)
(***************************************************************************)
DecoratedPaths ==
  {"/price", "/stats", "/mempool", "/halving", "/fees", "/historical/price"}
    \cup {"/price/" \o fiat : fiat \in FiatInputs}
    \cup {"/balance/" \o address : address \in Addresses}
    \cup {"/tx/" \o txid : txid \in Txids}
    \cup {"/block/" \o Str(seg) : seg \in {x \in BlockSegments : AllDigits(x)}}

BusyLimits ==
  [key \in {limit_key(Client1, path) : path \in DecoratedPaths} |->
     [n |-> LIMIT_AMOUNT - 1, exp |-> LIMIT_WINDOW]]

InitBusy ==
  /\ now = 0
  /\ cache = <<>>
  /\ limits = BusyLimits
  /\ last = NoRequest
  /\ nreq = 0
  /\ procs = IdleProcs
  /\ InitService

\* SpecBusy: every route, the busy client alone.
SpecBusy == InitBusy /\ [][Next]_vars

\* SpecLimit: the busy client and a second, fresh client on the undecorated route
\* and on two decorated routes.
NextLimit ==
  \/ \E client \in Clients : Root(client)
  \/ \E client \in Clients : GetPriceDefault(client)
  \/ \E client \in Clients : GetStats(client)
  \/ Tick

SpecLimit == InitBusy /\ [][NextLimit]_vars

(***************************************************************************)
(* Properties.  A step that serves a request is a step that increments     *)
(* nreq; last' is then the record of that request and cache, limits and    *)
(* now are the state the request found.                                    *)
(***************************************************************************)
RequestStep == nreq' = nreq + 1

CachedHandlers ==
  {"get_price_default", "get_price", "get_block", "get_block_by_hash", "get_stats",
   "get_historical_price", "get_mempool", "get_halving", "get_fees"}

\* The request reached the body of a handler that fronts its upstream with the cache.
Cacheable(r) == r.handler \in CachedHandlers /\ r.status \notin {422, 429}

\* The TTL, in seconds, the interface table gives the endpoint of request r.
TtlOf(r) ==
  CASE r.handler \in {"get_price_default", "get_price", "get_mempool"} -> 10
    [] r.handler \in {"get_block", "get_block_by_hash"} -> 3600
    [] r.handler \in {"get_stats", "get_fees"} -> 60
    [] r.handler = "get_historical_price" -> 86400
    [] r.handler = "get_halving" -> 600

\* The key of the interface table with the parameter as the client sent it.
KeyAsSent(r) ==
  CASE r.handler = "get_price_default" -> "price:usd"
    [] r.handler = "get_price" -> "price:" \o r.arg
    [] r.handler = "get_block" -> "block:height:" \o Str(r.arg)
    [] r.handler = "get_block_by_hash" -> "block:hash:" \o Str(r.arg)
    [] r.handler = "get_stats" -> "stats"
    [] r.handler = "get_historical_price" -> "historical_price:" \o Str(r.arg)
    [] r.handler = "get_mempool" -> "mempool"
    [] r.handler = "get_halving" -> "halving"
    [] r.handler = "get_fees" -> "fees"

\* The same key with the fiat code in lower case.
KeyOf(r) ==
  IF r.handler = "get_price" /\ r.arg = "USD" THEN "price:usd" ELSE KeyAsSent(r)

\* key holds an entry whose TTL has not ended
Live(key) == key \in DOMAIN cache /\ cache[key].exp > now

\* body is the object whose members are exactly the members of the stored value
Deserialized(val, body) ==
  /\ DOMAIN body = {val[i][1] : i \in 1..Len(val)}
  /\ \A i \in 1..Len(val) : body[val[i][1]] = val[i][2]

\* the request asks the price in US dollars
AsksUsd(r) ==
  \/ r.handler = "get_price_default"
  \/ r.handler = "get_price" /\ r.arg = "USD"

(***************************************************************************)
(* C1.  Cache-hit short-circuit: for every cacheable endpoint, a request   *)
(* that finds a live entry under its key is answered 200 with the          *)
(* deserialized value of that entry and makes no upstream call.            *)
(***************************************************************************)
C1_HitStep ==
  (RequestStep /\ Cacheable(last') /\ Live(KeyOf(last')))
    => /\ last'.status = 200
       /\ Deserialized(cache[KeyOf(last')].val, last'.body)
       /\ last'.calls = <<>>

\* GET /block/{hash} is never routed to get_block_by_hash (BlockRoutes), so no request
\* reaches its lookup; the handler itself is held to the same rule: with any live entry
\* of the cache placed under block:hash:{hash}, it returns that entry and calls nothing.
C1_ByHashHit ==
  \A k \in DOMAIN cache, seg \in BlockSegments :
    Live(k) =>
      LET key == "block:hash:" \o Str(seg)
          c == (key :> cache[k]) @@ cache
          r == get_block_by_hash(c, now, Str(seg), [redis |-> "up", blk |-> NotCalled])
      IN /\ r.status = 200
         /\ Deserialized(cache[k].val, r.body)
         /\ r.calls = <<>>
         /\ r.cache = c

C1_CacheHitShortCircuit == [][C1_HitStep /\ C1_ByHashHit]_vars

\* a block request answered from the entry an earlier block request stored
C1_Witness ==
  /\ last.handler = "get_block"
  /\ last.status = 200
  /\ last.calls = <<>>
  /\ last.body.height = 700000
  /\ "block:height:700000" \in DOMAIN cache

(***************************************************************************)
(* C2.  Price within the TTL: when a price request for a valid fiat code   *)
(* has been answered with a payload and the next request, less than 10     *)
(* seconds later, asks the same fiat, the two together make at most one    *)
(* upstream price call and the second is answered with exactly the payload *)
(* of the first, timestamp included.  Whenever a price request is answered *)
(* without an upstream call, the payload carries the timestamp of a fetch  *)
(* less than 10 seconds old.                                               *)
(***************************************************************************)
C2_PairStep ==
  (/\ RequestStep
   /\ AsksUsd(last) /\ last.status = 200
   /\ AsksUsd(last') /\ last'.status # 429
   /\ now - last.at < 10)
    => /\ last'.status = 200
       /\ last'.body = last.body
       /\ last'.body.timestamp = last.body.timestamp
       /\ Len(last.calls) + Len(last'.calls) <= 1

C2_FreshStep ==
  (RequestStep /\ AsksUsd(last') /\ last'.status = 200 /\ last'.calls = <<>>)
    => \E t0 \in 0..now : now - t0 < 10 /\ last'.body.timestamp = ToString(t0) \o "Z"

C2_PriceWithinTtl == [][C2_PairStep /\ C2_FreshStep]_vars

\* /price/USD at second 9 answered with the payload fetched at second 0
C2_Witness ==
  /\ last.handler = "get_price" /\ last.arg = "USD"
  /\ last.at = 9
  /\ last.status = 200
  /\ last.calls = <<>>
  /\ last.body.timestamp = "0Z"

(***************************************************************************)
(* C3.  Errors leave the cache alone: a request answered with an error     *)
(* status stores, replaces and removes nothing in the cache.               *)
(***************************************************************************)
C3_ErrorStep == (RequestStep /\ last'.status >= 400) => cache' = cache

C3_ErrorLeavesCache == [][C3_ErrorStep]_vars

\* a fee request that failed upstream after a lookup, beside an entry stored earlier
C3_Witness ==
  /\ last.handler = "get_fees"
  /\ last.status = 500
  /\ last.calls # <<>>
  /\ last.ops = <<OpGet("fees")>>
  /\ "price:usd" \in DOMAIN cache
  /\ "fees" \notin DOMAIN cache

(***************************************************************************)
(* C4.  Best-effort cache write, as the interface states it: a request     *)
(* that fetched and transformed its response and then tried to store it    *)
(* is answered 200 with that response, whether or not Redis accepted the   *)
(* write.  The handlers do not do this: setex raises and the request is    *)
(* answered 500.                                                           *)
(***************************************************************************)
C4_WriteFailureStillServed ==
  (Cacheable(last) /\ last.ops # <<>> /\ last.ops[Len(last.ops)][1] = "setex")
    => last.status = 200

(***************************************************************************)
(* C5.  Stats TTL: after a stats request stored its response at time T, a  *)
(* stats request up to T+59 is answered from the cache with that response  *)
(* and no upstream call; a stats request from T+61 on fetches upstream     *)
(* again and, when it succeeds, stores the new response for 60 seconds.    *)
(* A stats response served without an upstream call is never older than    *)
(* 59 seconds.                                                             *)
(***************************************************************************)
C5_PairStep ==
  (/\ RequestStep
   /\ last.handler = "get_stats" /\ last.status = 200 /\ last.calls # <<>>
   /\ last'.handler = "get_stats" /\ last'.status # 429)
    => /\ (now - last.at <= 59)
            => /\ last'.status = 200
               /\ last'.calls = <<>>
               /\ last'.body = last.body
               /\ cache' = cache
       /\ (now - last.at >= 61)
            => /\ last'.calls # <<>>
               /\ last'.calls[1] = "cg.get_coin_by_id:bitcoin"
               /\ last'.status = 200
                    => /\ "stats" \in DOMAIN cache'
                       /\ cache'["stats"].exp = now + 60
                       /\ Deserialized(cache'["stats"].val, last'.body)
                       /\ last'.body.timestamp = ToString(now) \o "Z"

C5_FreshStep ==
  (RequestStep /\ last'.handler = "get_stats" /\ last'.status = 200 /\ last'.calls = <<>>)
    => \E t0 \in 0..now : now - t0 <= 59 /\ last'.body.timestamp = ToString(t0) \o "Z"

C5_StatsTtl == [][C5_PairStep /\ C5_FreshStep]_vars

\* a stats request of second 61 that fetched again and stored for 60 seconds, the entry
\* of second 0 having expired
C5_Witness ==
  /\ last.handler = "get_stats"
  /\ last.at = 61
  /\ last.status = 200
  /\ Len(last.calls) = 4
  /\ last.body.timestamp = "61Z"
  /\ "stats" \in DOMAIN cache /\ cache["stats"].exp = 121
  /\ limits[<<Client1, "/stats">>].n = 2

(***************************************************************************)
(* C6.  Balance and transaction are never cached: a balance or transaction *)
(* request that reaches its handler reads and writes no cache entry,       *)
(* leaves the cache as it found it, and always makes its upstream address  *)
(* or transaction fetch, also when the same request was served just        *)
(* before.                                                                 *)
(***************************************************************************)
C6_Step ==
  (RequestStep /\ last'.handler \in {"get_balance", "get_tx"} /\ last'.status # 429)
    => /\ cache' = cache
       /\ last'.ops = <<>>
       /\ last'.calls # <<>>
       /\ last'.calls[1] =
            IF last'.handler = "get_balance"
            THEN "GET https://blockstream.info/api/address/" \o last'.arg
            ELSE "GET https://blockstream.info/api/tx/" \o last'.arg

C6_BalanceTxUncached == [][C6_Step]_vars

\* the second of two identical balance requests: both upstream calls made again
C6_Witness ==
  /\ last.handler = "get_balance"
  /\ last.status = 200
  /\ Len(last.calls) = 2
  /\ <<Client1, "/balance/bc1qw508d6">> \in DOMAIN limits
  /\ limits[<<Client1, "/balance/bc1qw508d6">>].n = 2
  /\ cache = <<>>

(***************************************************************************)
(* C7.  Keys and TTLs.  KeysAndTtls(Key) says of a step that serves a      *)
(* request: every cache operation of the request is on the key Key gives   *)
(* its endpoint, every write carries the TTL of the endpoint, the lookup   *)
(* and the write use the same key, and every entry the step stores or      *)
(* changes is the entry under that key, expiring TTL seconds later.        *)
(***************************************************************************)
KeysAndTtls(Key(_)) ==
  RequestStep =>
    /\ \A i \in 1..Len(last'.ops) :
         /\ Cacheable(last')
         /\ last'.ops[i][2] = Key(last')
         /\ last'.ops[i][1] = "setex" => last'.ops[i][3] = TtlOf(last')
    /\ \A k \in DOMAIN cache' :
         (k \notin DOMAIN cache \/ cache'[k] # cache[k])
           => /\ Cacheable(last')
              /\ k = Key(last')
              /\ cache'[k].exp = now + TtlOf(last')
              /\ last'.ops = <<<<"get", k, 0>>, <<"setex", k, TtlOf(last')>>>>
    /\ DOMAIN cache \subseteq DOMAIN cache'

\* C7 as the interface table words it: price:{fiat} with the fiat code of the request.
\* GET /price/USD reads and writes price:usd, so this does not hold.
C7_KeysAsSent == [][KeysAndTtls(KeyAsSent)]_vars

\* C7, amended: the key of the price endpoints is price:{fiat in lower case}; the other
\* keys and all TTLs are those of the table.
C7_KeysAndTtls == [][KeysAndTtls(KeyOf)]_vars

\* GET /price/USD stored its response under price:usd for 10 seconds
C7_Witness ==
  /\ last.handler = "get_price" /\ last.arg = "USD"
  /\ last.ops = <<<<"get", "price:usd", 0>>, <<"setex", "price:usd", 10>>>>
  /\ "price:usd" \in DOMAIN cache
  /\ cache["price:usd"].exp = last.at + 10
  /\ "price:USD" \notin DOMAIN cache

(***************************************************************************)
(* The limiter, seen from the requests.  Decorated(r): request r went      *)
(* through the wrapper of @limiter.limit.  Counted(client, path): the      *)
(* requests of the client on the path that the current window has counted. *)
(***************************************************************************)
Decorated(r) ==
  /\ r.handler \in CachedHandlers \cup {"get_balance", "get_tx"}
  /\ r.status # 422

Counted(client, path) ==
  IF <<client, path>> \in DOMAIN limits /\ limits[<<client, path>>].exp > now
  THEN limits[<<client, path>>].n
  ELSE 0

(***************************************************************************)
(* C8.  Limiter boundary: within one 15-minute window of a client, the     *)
(* window opening at the first counted request and lasting 900 seconds,    *)
(* the requests up to the 100th are admitted and the 101st and later ones  *)
(* are rejected; each request is counted once and only against its own     *)
(* client; when the 900 seconds have passed the count is dropped, so that  *)
(* the next request of the client is the first of a new window.  The count *)
(* of a client is kept per request path.                                   *)
(***************************************************************************)
C8_RequestStep ==
  (RequestStep /\ Decorated(last'))
    => LET key == <<last'.client, last'.path>>
           n == Counted(last'.client, last'.path)
       IN /\ (n + 1 <= 100) => last'.status # 429
          /\ (n + 1 >= 101) => last'.status = 429
          /\ key \in DOMAIN limits'
          /\ limits'[key].n = n + 1
          /\ limits'[key].exp = IF n = 0 THEN now + 900 ELSE limits[key].exp
          /\ \A k \in DOMAIN limits : k # key => (k \in DOMAIN limits' /\ limits'[k] = limits[k])

C8_RolloverStep ==
  (now' > now)
    => /\ \A k \in DOMAIN limits : limits[k].exp <= now' => k \notin DOMAIN limits'
       /\ \A k \in DOMAIN limits' : k \in DOMAIN limits /\ limits'[k] = limits[k]
       /\ \A k \in DOMAIN limits' : limits'[k].exp > now'

C8_LimiterBoundary == [][C8_RequestStep /\ C8_RolloverStep]_vars

\* the 101st request of 10.0.0.1 to /price in the window opened at second 0 is rejected
C8_Witness ==
  /\ last.handler = "get_price_default"
  /\ last.client = Client1
  /\ last.status = 429
  /\ limits[<<Client1, "/price">>] = [n |-> 101, exp |-> 900]
  /\ now < 900

(***************************************************************************)
(* C9.  A rejected request does no work: a request that arrives when its   *)
(* client has used up the 100 requests of the window is answered 429 with  *)
(* the rate-limit error, makes no upstream call, reads and writes no cache *)
(* entry and leaves the cache as it found it; and no request is answered   *)
(* 429 in any other way.                                                   *)
(***************************************************************************)
C9_Step ==
  RequestStep =>
    /\ (Decorated(last') /\ Counted(last'.client, last'.path) >= 100) => last'.status = 429
    /\ last'.status = 429
         => /\ Decorated(last')
            /\ last'.calls = <<>>
            /\ last'.ops = <<>>
            /\ cache' = cache
            /\ DOMAIN last'.body = {"error"}

C9_RejectedDoesNoWork == [][C9_Step]_vars

\* the 101st stats request is rejected although the 100th left a live stats entry
C9_Witness ==
  /\ last.handler = "get_stats"
  /\ last.status = 429
  /\ last.calls = <<>> /\ last.ops = <<>>
  /\ "stats" \in DOMAIN cache /\ cache["stats"].exp > now

(***************************************************************************)
(* C10.  Malformed dates, as the interface states it: a historical-price   *)
(* request whose date is not of the form YYYY-MM-DD is answered 400        *)
(* without an upstream call in both variants, and without a cache          *)
(* operation in the cached one.  Neither variant does this: btc1.py takes  *)
(* every string datetime.fromisoformat parses, main.py every string with   *)
(* two hyphens.                                                            *)
(***************************************************************************)
IsYearMonthDay(s) ==
  /\ Len(s) = 10
  /\ s[5] = "-" /\ s[8] = "-"
  /\ \A i \in {1, 2, 3, 4, 6, 7, 9, 10} : s[i] \in Digits

C10_MalformedDateRejected ==
  (/\ last.handler \in {"get_historical_price", "main.get_historical_price"}
   /\ last.status # 429
   /\ ~IsYearMonthDay(last.arg))
    => /\ last.status = 400
       /\ last.calls = <<>>
       /\ last.ops = <<>>

(***************************************************************************)
(* SpecHistory: GET /historical/price of both variants, over dates that    *)
(* include a year below 1000 and a leap day.                               *)
(***************************************************************************)
HistoryDates ==
  DateInputs \cup {<<"0", "9", "9", "9", "-", "0", "1", "-", "0", "1">>,
                   <<"2", "0", "2", "4", "-", "0", "2", "-", "2", "9">>}

NextHistory ==
  \/ \E date \in HistoryDates : GetHistoricalPrice(Client1, date)
  \/ \E date \in HistoryDates : MainGetHistoricalPrice(Client1, date)
  \/ Tick

SpecHistory == Init /\ [][NextHistory]_vars

(***************************************************************************)
(* C11.  Date transform, as the interface states it: for every valid       *)
(* YYYY-MM-DD date the upstream history call gets the same day, month and  *)
(* year as DD-MM-YYYY, and the response and the cache key carry the date   *)
(* as the client sent it.  btc1.py renders the year with strftime's %Y,    *)
(* which glibc does not pad: 0999-01-01 goes upstream as 01-01-999.        *)
(***************************************************************************)
\* a YYYY-MM-DD string that names a day of the calendar
ValidDate(s) ==
  /\ IsYearMonthDay(s)
  /\ LET y == ToInt(SubSeq(s, 1, 4))
         m == ToInt(SubSeq(s, 6, 7))
         d == ToInt(SubSeq(s, 9, 10))
     IN y >= 1 /\ m \in 1..12 /\ d \in 1..DaysInMonth(y, m)

\* the characters of YYYY-MM-DD in the order DD-MM-YYYY
DayMonthYear(s) == Str(SubSeq(s, 9, 10) \o <<"-">> \o SubSeq(s, 6, 7) \o <<"-">> \o SubSeq(s, 1, 4))

C11_DateTransform ==
  (/\ last.handler \in {"get_historical_price", "main.get_historical_price"}
   /\ last.status # 429
   /\ ValidDate(last.arg))
    => /\ last.calls # <<>> => last.calls = <<"cg.get_coin_history_by_id:" \o DayMonthYear(last.arg)>>
       /\ last.status = 200 => last.body.date = Str(last.arg)
       /\ last.handler = "get_historical_price"
            => /\ last.ops # <<>>
               /\ \A i \in 1..Len(last.ops) : last.ops[i][2] = "historical_price:" \o Str(last.arg)

(***************************************************************************)
(* SpecMain: the handlers of main.py that the properties below speak of.   *)
(***************************************************************************)
NextMain ==
  \/ \E txid \in Txids : MainGetTx(Client1, txid)
  \/ \E seg \in BlockSegments : MainGetBlock(Client1, seg)
  \/ MainGetMempool(Client1)
  \/ MainGetHalving(Client1)
  \/ MainGetFees(Client1)
  \/ \E date \in DateInputs : MainGetHistoricalPrice(Client1, date)
  \/ Tick

SpecMain == Init /\ [][NextMain]_vars

(***************************************************************************)
(* SpecReward: block requests of both variants over heights on both sides  *)
(* of the first halvings and far beyond them, and the halving endpoint.    *)
(***************************************************************************)
RECURSIVE Chars(_)
\* the path segment a client writes for height n
Chars(n) == IF n < 10 THEN <<ToString(n)>> ELSE Chars(n \div 10) \o <<ToString(n % 10)>>

RewardHeights == {0, 209999, 210000, 419999, 420000, 700000, 4200000}

NextReward ==
  \/ \E h \in RewardHeights : GetBlock(Client1, Chars(h))
  \/ \E h \in RewardHeights : MainGetBlock(Client1, Chars(h))
  \/ GetHalving(Client1)
  \/ MainGetHalving(Client1)

SpecReward == Init /\ [][NextReward]_vars

(***************************************************************************)
(* C12.  Block reward: the reward reported for height h is                 *)
(* 50 / 2^(h // 210000) -- for the requested height of a block request in  *)
(* both variants, for the height a hash lookup returns, and for the tip    *)
(* height in the halving endpoint -- it does not increase with h, and it   *)
(* is 6.25 at height 700000.                                               *)
(***************************************************************************)
\* the fraction f is 50 / 2^(h // 210000)
IsRewardOf(f, h) == f.num * 2^(h \div 210000) = 50 * f.den

\* block detail as the explorer returns it for a block of height h
BlockAt(h) ==
  [k |-> "ok", data |-> [height |-> h, timestamp |-> 1631333672, tx_count |-> 1276]]

\* the tip height as the explorer returns it
TipAt(h) == [k |-> "ok", text |-> Chars(h)]

C12_LastReward ==
  /\ (last.handler \in {"get_block", "main.get_block"} /\ last.status = 200)
       => /\ last.body.height = ToInt(last.arg)
          /\ IsRewardOf(last.body.reward_btc, last.body.height)
  /\ (last.handler = "get_halving" /\ last.status = 200)
       => IsRewardOf(last.body.current_reward_btc,
                     last.body.next_halving_block - last.body.blocks_remaining)
  /\ (last.handler = "main.get_halving" /\ last.status = 200)
       => IsRewardOf(last.body.current_reward_btc,
                     last.body.next_halving_height - last.body.blocks_remaining)

C12_HandlerReward ==
  \A h \in RewardHeights :
    LET byhash == get_block_by_hash(<<>>, now, "000a3f", [redis |-> "up", blk |-> BlockAt(h)])
        halving == get_halving(<<>>, now, [redis |-> "up", tip |-> TipAt(h)])
        mhalving == main_get_halving(<<>>, now, [tip |-> TipAt(h)])
    IN /\ byhash.status = 200 /\ IsRewardOf(byhash.body.reward_btc, h)
       /\ halving.status = 200 /\ IsRewardOf(halving.body.current_reward_btc, h)
       /\ mhalving.status = 200 /\ IsRewardOf(mhalving.body.current_reward_btc, h)

C12_Monotone ==
  \A h1, h2 \in RewardHeights :
    h1 <= h2 => reward(h2).num * reward(h1).den <= reward(h1).num * reward(h2).den

C12_BlockReward ==
  /\ C12_LastReward
  /\ C12_HandlerReward
  /\ C12_Monotone
  /\ reward(700000).num * 4 = 25 * reward(700000).den

\* the block of height 700000 reported with a reward of 50/8 = 6.25
C12_Witness ==
  /\ last.handler = "get_block"
  /\ last.status = 200
  /\ last.body.height = 700000
  /\ last.body.reward_btc.num * 100 = 625 * last.body.reward_btc.den
  /\ last.calls # <<>>

(***************************************************************************)
(* C13.  Confirmations, as the interface states them for both variants: a  *)
(* confirmed transaction is reported with tip height - block height + 1,   *)
(* the tip height fetched during the request; an unconfirmed one with 0    *)
(* and without a tip-height call.  (The explorer's tip is at 700000 in     *)
(* TipOutcomes.)  main.py never fetches the tip: it subtracts the block    *)
(* height from itself and reports 1 for every confirmed transaction.       *)
(***************************************************************************)
C13_Confirmations ==
  (last.handler \in {"get_tx", "main.get_tx"} /\ last.status = 200)
    => IF last.body.block_height # 0
       THEN /\ Len(last.calls) = 2
            /\ last.calls[2] = "GET https://blockstream.info/api/blocks/tip/height"
            /\ last.body.confirmations = 700000 - last.body.block_height + 1
       ELSE /\ last.body.confirmations = 0
            /\ Len(last.calls) = 1

(***************************************************************************)
(* C14.  Block by hash, as the interface states it: GET /block/<hash> with *)
(* a segment that is not an integer is resolved by get_block_by_hash --     *)
(* answered from block:hash:{hash} or by one block-detail call for the     *)
(* hash, stored under block:hash:{hash} for 3600 seconds on success, 400   *)
(* for an invalid hash.  The router gives every /block/<segment> to        *)
(* get_block, registered first, which answers 422 to a non-integer.        *)
(***************************************************************************)
C14_HashRouted ==
  (/\ last.handler \in {"get_block", "get_block_by_hash"}
   /\ last.status # 429
   /\ ~AllDigits(last.arg))
    => /\ last.handler = "get_block_by_hash"
       /\ last.status \in {200, 400}
       /\ last.ops # <<>> /\ last.ops[1] = <<"get", "block:hash:" \o Str(last.arg), 0>>
       /\ last.calls # <<>>
            => /\ last.calls = <<"GET https://blockstream.info/api/block/" \o Str(last.arg)>>
               /\ last.status = 200
                    => last.ops = <<<<"get", "block:hash:" \o Str(last.arg), 0>>,
                                    <<"setex", "block:hash:" \o Str(last.arg), 3600>>>>

(***************************************************************************)
(* C15.  Outage and bad input, as the interface tells them apart: for the  *)
(* transaction and block lookups of both variants, whatever the cache      *)
(* holds, an upstream call that times out gives a 5xx answer and an        *)
(* upstream call answered with an error status gives 400.  The handlers    *)
(* catch requests.RequestException, which is both, and raise 400.          *)
(***************************************************************************)
Outage == [k |-> "timeout"]
Refusal == [k |-> "http_error"]

\* The answers of the four lookups when their first upstream call has outcome o.
LookupAnswers(o) ==
  {get_tx(cache, now, txid, [tx |-> o, tip |-> NotCalled]) : txid \in Txids}
    \cup {main_get_tx(cache, txid, [tx |-> o]) : txid \in Txids}
    \cup {get_block(<<>>, now, h, [redis |-> "up", bh |-> o, blk |-> NotCalled]) : h \in RewardHeights}
    \cup {main_get_block(cache, h, [bh |-> o, blk |-> NotCalled]) : h \in RewardHeights}

\* The same when the first call answered and the second has outcome o.
SecondCallAnswers(o) ==
  {get_tx(cache, now, txid, [tx |-> x, tip |-> o]) :
     txid \in Txids, x \in {y \in TxOutcomes : ~Failed(y) /\ y.data.status.confirmed}}
    \cup {get_block(<<>>, now, h, [redis |-> "up", bh |-> b, blk |-> o]) :
            h \in RewardHeights, b \in {y \in BlockHeightOutcomes : ~Failed(y)}}
    \cup {main_get_block(cache, h, [bh |-> b, blk |-> o]) :
            h \in RewardHeights, b \in {y \in BlockHeightOutcomes : ~Failed(y)}}

C15_OutageIsNotBadInput ==
  /\ \A r \in LookupAnswers(Outage) \cup SecondCallAnswers(Outage) :
       r.status >= 500 /\ r.status <= 599
  /\ \A r \in LookupAnswers(Refusal) \cup SecondCallAnswers(Refusal) : r.status = 400

(***************************************************************************)
(* C16.  Dependency order of a block-by-height resolution, in both         *)
(* variants: the first upstream call is the height-to-hash lookup; the     *)
(* block-detail call is the second and last call, is issued only after     *)
(* the lookup answered, and asks for the hash the lookup returned; when    *)
(* the lookup fails no block-detail call is issued.                        *)
(***************************************************************************)
HeightLookup(h) == "GET https://blockstream.info/api/block-height/" \o h
BlockDetail(hash) == "GET https://blockstream.info/api/block/" \o hash

\* the hashes the explorer may return for a height
SomeHashes == {"0000000000000000000590fc", "00000000000000000002c5d1"}

\* The calls of both variants for height h when the lookup has outcome bh and the
\* block-detail call, if made, has outcome blk.
BlockCalls(h, bh, blk) ==
  {get_block(<<>>, now, h, [redis |-> "up", bh |-> bh, blk |-> blk]).calls,
   main_get_block(cache, h, [bh |-> bh, blk |-> blk]).calls}

C16_LastCalls ==
  (last.handler \in {"get_block", "main.get_block"} /\ last.calls # <<>>)
    => /\ last.calls[1] = HeightLookup(Str(last.arg))
       /\ Len(last.calls) <= 2
       /\ Len(last.calls) = 2 => last.calls[2] \in {BlockDetail(hash) : hash \in SomeHashes}
       /\ last.status = 200 => (Len(last.calls) = 2 /\ last.calls[2] = BlockDetail(last.body.hash))

C16_HandlerCalls ==
  \A h \in RewardHeights :
    /\ \A hash \in SomeHashes, blk \in BlockOutcomes :
         \A calls \in BlockCalls(h, [k |-> "ok", text |-> hash], blk) :
           calls = <<HeightLookup(ToString(h)), BlockDetail(hash)>>
    /\ \A bh \in HttpFail, blk \in BlockOutcomes \cup {NotCalled} :
         \A calls \in BlockCalls(h, bh, blk) : calls = <<HeightLookup(ToString(h))>>

C16_DependencyOrder == C16_LastCalls /\ C16_HandlerCalls

\* a block request whose lookup answered with the hash its block-detail call then used
C16_Witness ==
  /\ last.handler = "get_block"
  /\ last.status = 200
  /\ last.body.hash = "0000000000000000000590fc"
  /\ last.calls = <<HeightLookup("420000"), BlockDetail("0000000000000000000590fc")>>

(***************************************************************************)
(* C17.  No retries, as the interface states it: a resolution attempts no  *)
(* upstream call twice, and when any of its upstream calls fails (timeout, *)
(* connection error or an error status) the request is answered with an    *)
(* error.  main.py's get_mempool does not check the status of its          *)
(* fee-estimates call: an error answer with a JSON body is read as an      *)
(* empty estimate and the request succeeds with the default fee 25.        *)
(***************************************************************************)
NoCallTwice(calls) == \A i, j \in 1..Len(calls) : calls[i] = calls[j] => i = j

\* The answers of get_stats (btc1.py), get_mempool and get_fees (main.py) to every
\* combination of upstream outcomes in which a call that is made fails.
AnswersToFailure ==
  {get_stats(<<>>, now, [redis |-> "up", coin |-> e[1], hr |-> e[2], diff |-> e[3], mem |-> e[4]]) :
     e \in {x \in CoinOutcomes \X ChartOutcomes \X ChartOutcomes \X MempoolOutcomes :
              \E i \in 1..4 : Failed(x[i])}}
    \cup {main_get_mempool(cache, now, [mem |-> e[1], fees |-> e[2]]) :
            e \in {x \in MempoolOutcomes \X Unchecked(FeeOutcomes) :
                     \E i \in 1..2 : Failed(x[i])}}
    \cup {main_get_fees(cache, now, [fees |-> e[1], mem |-> e[2]]) :
            e \in {x \in FeeOutcomes \X Unchecked(MempoolOutcomes) :
                     \E i \in 1..2 : Failed(x[i])}}

C17_SingleFailureFails ==
  /\ NoCallTwice(last.calls)
  /\ \A r \in AnswersToFailure : r.status >= 400 /\ NoCallTwice(r.calls)

(***************************************************************************)
(* C18.  The price of a balance lookup goes through the cache: a balance   *)
(* request that reaches its handler and gets past the address fetch        *)
(* consults the entry price:usd first, and while that entry is live it     *)
(* makes no upstream price call.  get_balance calls cg.get_price itself    *)
(* and never touches the cache.                                            *)
(***************************************************************************)
C18_Step ==
  (/\ RequestStep
   /\ last'.handler = "get_balance"
   /\ last'.status # 429
   /\ Len(last'.calls) >= 2 \/ last'.status = 200)
    => /\ OpGet("price:usd") \in {last'.ops[i] : i \in 1..Len(last'.ops)}
       /\ Live("price:usd")
            => "cg.get_price:usd" \notin {last'.calls[i] : i \in 1..Len(last'.calls)}

C18_BalancePriceCached == [][C18_Step]_vars

\* C18, the part that speaks of a cached price only: a balance request made while
\* price:usd is live makes no upstream price call.
C18_NoPriceCallOnHit ==
  [][(/\ RequestStep
      /\ last'.handler = "get_balance"
      /\ last'.status # 429
      /\ Live("price:usd"))
       => "cg.get_price:usd" \notin {last'.calls[i] : i \in 1..Len(last'.calls)}]_vars

(***************************************************************************)
(* A resolution as the processes of procs run it.  Between the lookup      *)
(* (redis_client.get), the upstream calls and the write                    *)
(* (redis_client.setex) of one process, the Redis commands of another      *)
(* process can take effect; the three steps are separate actions here.     *)
(* The routes are the two whose responses carry a reading and a timestamp. *)
(***************************************************************************)
WorkerRoutes == {"get_price_default", "get_stats"}

route_path(h) == IF h = "get_price_default" THEN "/price" ELSE "/stats"

cache_key(h) == IF h = "get_price_default" THEN "price:" \o lower("usd") ELSE "stats"

handler_body(h, c, t, u) ==
  IF h = "get_price_default" THEN get_price_default(c, t, u) ELSE get_stats(c, t, u)

\* the price is not the same at every call
MovingQuotes == PriceQuotes \cup {64100}

\* the outcomes of the upstream calls of one resolution (a call that is not reached
\* is not answered)
UpstreamFor(h) ==
  IF h = "get_price_default"
  THEN {[redis |-> "up", cg |-> o] :
          o \in {[k |-> "ok", data |-> [bitcoin |-> CgQuote("usd", p, TRUE)]] : p \in MovingQuotes}
                  \cup CgFail}
  ELSE {[redis |-> "up", coin |-> e[1], hr |-> e[2], diff |-> e[3], mem |-> e[4]] :
          e \in {x \in CoinOutcomes \X (ChartOutcomes \cup {NotCalled})
                         \X (ChartOutcomes \cup {NotCalled}) \X (MempoolOutcomes \cup {NotCalled}) :
                   /\ x[2] \in After(~Failed(x[1]), ChartOutcomes)
                   /\ x[3] \in After(~Failed(x[1]) /\ x[2].k # "timeout", ChartOutcomes)
                   /\ x[4] \in After(~Failed(x[1]) /\ ~Failed(x[2]) /\ ~Failed(x[3]),
                                     MempoolOutcomes)}}

Busy == {w \in Workers : procs[w].job # Idle}

\* process w sends the answer out of its request
Answer(w, lim, h, client, out) ==
  /\ procs' = [procs EXCEPT ![w] = [limits |-> lim, job |-> Idle,
                                    out |-> [status |-> out.status, body |-> out.body,
                                             ops |-> out.ops, at |-> now]]]
  /\ UNCHANGED limits
  /\ Respond(h, client, route_path(h), "", out)

\* Fault: SET ... NX -- a live entry is kept, the first write wins.
StoreFetched_nx(c, t, job, redis) ==
  IF redis = "up"
  THEN Result(200, job.response, job.calls, <<OpGet(job.key), OpSetex(job.key, job.ttl)>>,
              IF truthy(redis_get(c, t, job.key)) THEN c
              ELSE redis_setex(c, t, job.key, job.ttl, job.val))
  ELSE Unhandled("RedisError", job.calls, <<OpGet(job.key), OpSetex(job.key, job.ttl)>>, c)

\* `redis_client.setex(cache_key, ttl, json.dumps(response)); return response`, on the
\* store as it is when the command arrives
StoreFetched(c, t, job, redis) ==
  IF redis = "up"
  THEN Result(200, job.response, job.calls, <<OpGet(job.key), OpSetex(job.key, job.ttl)>>,
              redis_setex(c, t, job.key, job.ttl, job.val))
  ELSE Unhandled("RedisError", job.calls, <<OpGet(job.key), OpSetex(job.key, job.ttl)>>, c)

\* The wrapper checks the limit of the process, then `cached = redis_client.get(cache_key)`:
\* a refused request and a hit are answered at once, a miss goes on to the upstream.
Lookup(w, client, h) ==
  /\ procs[w].job = Idle
  /\ nreq + Cardinality(Busy) < MaxRequests
  /\ LET key == limit_key(client, route_path(h))
         lim == storage_incr(procs[w].limits, key, now)
         cached == redis_get(cache, now, cache_key(h))
     IN IF ~limiter_hit(procs[w].limits, key, now)
        THEN Answer(w, lim, h, client, async_wrapper(FALSE, RateLimited(cache), cache))
        ELSE IF truthy(cached)
        THEN Answer(w, lim, h, client, CacheHit(cache, cache_key(h), cached))
        ELSE /\ procs' = [procs EXCEPT ![w] = [@ EXCEPT !.limits = lim,
                                                       !.job = [pc |-> "missed", handler |-> h,
                                                                client |-> client,
                                                                key |-> cache_key(h)]]]
             /\ UNCHANGED <<now, cache, limits, last, nreq, app_price, lock, updater, upstream, returned>>

\* The upstream calls of a resolution whose lookup missed, and the response built from
\* them with the timestamp of that moment; a failed call ends the request.
Fetch(w) ==
  LET job == procs[w].job
  IN /\ job.pc = "missed"
     /\ \E u \in UpstreamFor(job.handler) :
          LET r == handler_body(job.handler, <<>>, now, u)
          IN IF r.status = 200
             THEN /\ procs' = [procs EXCEPT ![w] =
                                 [@ EXCEPT !.job = [pc |-> "fetched", handler |-> job.handler,
                                                    client |-> job.client, key |-> job.key,
                                                    response |-> r.body, calls |-> r.calls,
                                                    val |-> r.cache[job.key].val,
                                                    ttl |-> r.ops[2][3]]]]
                  /\ UNCHANGED <<now, cache, limits, last, nreq, app_price, lock, updater, upstream, returned>>
             ELSE Answer(w, procs[w].limits, job.handler, job.client, [r EXCEPT !.cache = cache])

\* The write of a resolution that fetched, and its answer.
Write(w) ==
  LET job == procs[w].job
  IN /\ job.pc = "fetched"
     /\ \E rd \in RedisStates :
          Answer(w, procs[w].limits, job.handler, job.client, StoreFetched(cache, now, job, rd))

\* the instants of a race: within the TTL of the price, and past it
RaceInstants == {1, PRICE_TTL + 1}

NextWorkers ==
  \/ \E w \in Workers, h \in WorkerRoutes : Lookup(w, Client1, h)
  \/ \E w \in Workers : Fetch(w)
  \/ \E w \in Workers : Write(w)
  \/ \E t \in RaceInstants : TickTo(t)

SpecWorkers == Init /\ [][NextWorkers]_vars

(***************************************************************************)
(* C19.  Overlapping resolutions of one key.  As stated: when two          *)
(* resolutions of the same key overlap and both miss, the values the two   *)
(* write are equivalent, so the cached value does not depend on which      *)
(* write landed last.  Each resolution builds its response from its own    *)
(* upstream answer and its own clock reading, so the two values differ.    *)
(***************************************************************************)
Fetched(w, k) == procs[w].job.pc = "fetched" /\ procs[w].job.key = k

C19_RacesEquivalent ==
  \A w1, w2 \in Workers : \A h \in WorkerRoutes :
    (Fetched(w1, cache_key(h)) /\ Fetched(w2, cache_key(h)))
      => procs[w1].job.val = procs[w2].job.val

(***************************************************************************)
(* C19 as amended: a resolution that missed makes its upstream calls       *)
(* whatever the other resolution has stored meanwhile, and when they       *)
(* succeed it writes; a write that Redis accepts replaces the entry of the *)
(* key by the value and the TTL of the writing resolution, whatever was    *)
(* there; nothing else changes an entry; a later hit returns the entry as  *)
(* it then is.  So the cached value is the one of the write that landed    *)
(* last.                                                                   *)
(***************************************************************************)
C19_FetchStep ==
  \A w \in Workers :
    (procs[w].job.pc = "missed" /\ procs'[w].job # procs[w].job)
      => /\ cache' = cache
         /\ \/ /\ procs'[w].job.pc = "fetched"
               /\ procs'[w].job.calls # <<>>
               /\ procs'[w].job.key = procs[w].job.key
            \/ /\ procs'[w].job = Idle
               /\ last'.status >= 400
               /\ last'.calls # <<>>

C19_WriteStep ==
  \A w \in Workers :
    (procs[w].job.pc = "fetched" /\ procs'[w].job # procs[w].job)
      => LET job == procs[w].job
         IN /\ procs'[w].job = Idle
            /\ OpSetex(job.key, job.ttl) \in {last'.ops[i] : i \in 1..Len(last'.ops)}
            /\ \/ /\ last'.status = 200
                  /\ DOMAIN cache' = DOMAIN cache \cup {job.key}
                  /\ cache'[job.key] = [val |-> job.val, exp |-> now + job.ttl]
                  /\ \A k \in DOMAIN cache : k # job.key => cache'[k] = cache[k]
                  /\ Deserialized(job.val, last'.body)
               \/ /\ last'.status = 500
                  /\ cache' = cache

C19_OnlyWritesStore ==
  \A k \in DOMAIN cache' :
    (k \notin DOMAIN cache \/ cache'[k] # cache[k])
      => \E w \in Workers : Fetched(w, k) /\ procs'[w].job = Idle

C19_HitStep ==
  \A w \in Workers :
    (/\ procs[w].job = Idle
     /\ procs'[w].out # procs[w].out
     /\ procs'[w].job = Idle
     /\ last'.status = 200)
      => /\ last'.calls = <<>>
         /\ cache' = cache
         /\ Live(cache_key(last'.handler))
         /\ Deserialized(cache[cache_key(last'.handler)].val, last'.body)

C19_LastWriteWins ==
  [][C19_FetchStep /\ C19_WriteStep /\ C19_OnlyWritesStore /\ C19_HitStep]_vars

\* Two price resolutions that both missed, both fetched and both wrote within one TTL:
\* the readings differ, and the entry holds the value of the one that answered last.
C19_Witness ==
  \E w1, w2 \in Workers :
    /\ w1 # w2
    /\ nreq = 2
    /\ \A w \in {w1, w2} :
         /\ procs[w].job = Idle
         /\ procs[w].out.status = 200
         /\ procs[w].out.ops = <<OpGet("price:usd"), OpSetex("price:usd", PRICE_TTL)>>
    /\ procs[w2].out.at - procs[w1].out.at \in 0..(PRICE_TTL - 1)
    /\ procs[w1].out.body.price_usd = 64000
    /\ procs[w2].out.body.price_usd = 64100
    /\ last.body = procs[w2].out.body
    /\ Live("price:usd")
    /\ json_loads(cache["price:usd"].val) = procs[w2].out.body

(***************************************************************************)
(* C20.  One limit for every route: once a client has had 100 requests     *)
(* admitted in the current window, every route, GET / included, rejects    *)
(* the client's next request.  The counters are kept per route and the     *)
(* root route has none.                                                    *)
(***************************************************************************)
AtLimit(client) == \E key \in DOMAIN limits : key[1] = client /\ Counted(client, key[2]) >= LIMIT_AMOUNT

C20_Step == (RequestStep /\ AtLimit(last'.client)) => last'.status = 429

C20_EveryRouteLimited == [][C20_Step]_vars

(***************************************************************************)
(* The halving routes of both gateways with the tip of the chain at the    *)
(* heights around the halvings.                                            *)
(***************************************************************************)
HalvingTips == {0, 1, 209999, 210000, 210001, 419999, 700000, 839999, 840000}

GetHalvingAt(client, h) ==
  \E rd \in RedisStates :
    Limited("get_halving", client, "/halving", "",
            get_halving(cache, now, [redis |-> rd, tip |-> TipAt(h)]))

MainGetHalvingAt(client, h) ==
  Unlimited("main.get_halving", client, "/halving", "",
            main_get_halving(cache, now, [tip |-> TipAt(h)]))

NextHalving ==
  \/ \E h \in HalvingTips : GetHalvingAt(Client1, h)
  \/ \E h \in HalvingTips : MainGetHalvingAt(Client1, h)
  \/ Tick

SpecHalving == Init /\ [][NextHalving]_vars

(***************************************************************************)
(* C21.  Next halving: for a tip at height t the halving route answers     *)
(* with the next halving at (t div 210000 + 1) * 210000 and with           *)
(* blocks_remaining = that height - t, so the next halving is a multiple   *)
(* of 210000 above t and blocks_remaining lies in 1..210000; the           *)
(* estimated date is the time of the request plus blocks_remaining * 10    *)
(* minutes.  main.py reports the height as next_halving_height.            *)
(***************************************************************************)
NextHalvingOf(body) ==
  IF "next_halving_block" \in DOMAIN body THEN body.next_halving_block
  ELSE body.next_halving_height

HalvingOk(body, tip, t) ==
  LET nh == NextHalvingOf(body)
  IN /\ nh = (tip \div 210000 + 1) * 210000
     /\ body.blocks_remaining = nh - tip
     /\ nh % 210000 = 0
     /\ nh > tip
     /\ body.blocks_remaining \in 1..210000
     /\ body.estimated_date = iso_now(t + body.blocks_remaining * 10 * 60)

\* a halving request that asked the explorer for the tip
C21_Step ==
  (/\ RequestStep
   /\ last'.handler \in {"get_halving", "main.get_halving"}
   /\ last'.status = 200
   /\ last'.calls # <<>>)
    => HalvingOk(last'.body, NextHalvingOf(last'.body) - last'.body.blocks_remaining, now)

\* the handlers on every tip
C21_HandlerHalving ==
  \A h \in HalvingTips :
    /\ HalvingOk(get_halving(<<>>, now, [redis |-> "up", tip |-> TipAt(h)]).body, h, now)
    /\ HalvingOk(main_get_halving(<<>>, now, [tip |-> TipAt(h)]).body, h, now)

C21_NextHalving == [][C21_Step /\ C21_HandlerHalving]_vars

\* the tip on a halving height: a whole interval remains
C21_Witness ==
  /\ last.handler = "get_halving"
  /\ last.status = 200
  /\ last.calls # <<>>
  /\ last.body.next_halving_block = 1050000
  /\ last.body.blocks_remaining = 210000
  /\ last.body.estimated_date = iso_now(last.at + 126000000)

(***************************************************************************)
(* C22.  A hit leaves the cache alone: a request that finds a live entry   *)
(* under its key makes the lookup and nothing else, and the cache is the   *)
(* same after it.  An entry is stored with the expiry of its write, time   *)
(* of the write plus the TTL of the endpoint, keeps value and expiry for   *)
(* as long as it is there, and goes when and only when the time reaches    *)
(* that expiry; a request that makes its lookup and finds no live entry    *)
(* calls the upstream.                                                     *)
(***************************************************************************)
C22_HitStep ==
  (RequestStep /\ Cacheable(last') /\ Live(KeyOf(last')))
    => /\ cache' = cache
       /\ last'.ops = <<OpGet(KeyOf(last'))>>

C22_EntryStep ==
  /\ \A k \in DOMAIN cache :
       /\ k \in DOMAIN cache' => cache'[k] = cache[k]
       /\ k \notin DOMAIN cache' => (now' > now /\ now' >= cache[k].exp)
       /\ cache[k].exp > now' => k \in DOMAIN cache'
  /\ \A k \in DOMAIN cache' \ DOMAIN cache :
       /\ RequestStep
       /\ Cacheable(last')
       /\ k = KeyOf(last')
       /\ cache'[k].exp = now + TtlOf(last')

C22_ExpiredStep ==
  (RequestStep /\ Cacheable(last') /\ last'.ops # <<>> /\ ~Live(KeyOf(last')))
    => last'.calls # <<>>

C22_HitsKeepExpiry == [][C22_HitStep /\ C22_EntryStep /\ C22_ExpiredStep]_vars

\* a mempool request at second 9 served from the entry written at second 0, which
\* still expires at second 10
C22_Witness ==
  /\ last.handler = "get_mempool"
  /\ last.status = 200
  /\ last.calls = <<>>
  /\ last.at = 9
  /\ now = 9
  /\ "mempool" \in DOMAIN cache
  /\ cache["mempool"].exp = MEMPOOL_TTL
  /\ Deserialized(cache["mempool"].val, last.body)

(***************************************************************************)
(* The polling price service on its own.  The thread scheduler lets the    *)
(* updater thread run again and again (weak fairness of each of its        *)
(* steps); nothing makes the program start it, the upstream change or a    *)
(* client ask.                                                             *)
(***************************************************************************)
NextService == Start \/ Get \/ Acquire \/ Store \/ Release \/ SleepTick \/ Wake \/ ServePrice \/ Drift

SpecService == Init /\ [][NextService]_vars

SpecServiceFair ==
  /\ SpecService
  /\ WF_vars(Get) /\ WF_vars(Acquire) /\ WF_vars(Store) /\ WF_vars(Release)
  /\ WF_vars(SleepTick) /\ WF_vars(Wake)

(***************************************************************************)
(* C23.  The polling service's price: whatever the interleaving of the     *)
(* updater thread and the /price requests, the stored price and every      *)
(* /price answer is the initial "0" or the decimal string of the integer   *)
(* part of a price a successful fetch returned.  The stored price changes  *)
(* only when the updater, holding the lock, stores the integer part of     *)
(* the number its last fetch returned; a fetch that fails (timeout,        *)
(* network error, no JSON, missing field) or returns no number leaves the  *)
(* stored price as it was.                                                 *)
(***************************************************************************)
\* the decimal string of the integer part of a non-negative quote
Truncated(q) == ToString(q.num \div q.den)

GoodPrices == {"0"} \cup {Truncated(q) : q \in Quotes}

C23_PriceStep ==
  /\ app_price' # app_price
       => /\ updater.pc = "store"
          /\ lock = "updater"
          /\ updater.p \in Quotes
          /\ app_price' = Truncated(updater.p)
  /\ updater'.p # updater.p
       => /\ updater.pc = "get"
          /\ upstream.k = "ok"
          /\ updater'.p = upstream.usd
  /\ (updater.pc = "get" /\ updater'.pc # "get" /\ upstream \in UpstreamFailures)
       => /\ app_price' = app_price
          /\ updater'.pc = "sleep"
  /\ (updater.pc = "store" /\ updater'.pc # "store" /\ updater.p \in NonNumbers)
       => app_price' = app_price
  /\ returned' # returned => returned' = app_price
  /\ app_price' \in GoodPrices
  /\ returned' \in GoodPrices \cup {"none"}

C23_PriceIsFetched == [][C23_PriceStep]_vars

\* /price answers 64000, stored from the quote 64000.55, after a later fetch that
\* returned null for the price
C23_Witness ==
  /\ returned = "64000"
  /\ app_price = "64000"
  /\ updater.pc = "sleep"
  /\ updater.p = [k |-> "null"]
  /\ lock = "free"

(***************************************************************************)
(* C24.  The updater never stops polling: once started, whatever its       *)
(* attempts meet (a failed fetch, a value that is no number, a success),   *)
(* it always comes to fetch again, and it does so after a sleep of 10      *)
(* seconds; so when the upstream answers one quote from some point on,     *)
(* the stored price becomes the integer part of that quote and stays it.   *)
(***************************************************************************)
Started == updater.pc # "not_started"

C24_SleepStep ==
  /\ (updater.pc # "sleep" /\ updater'.pc = "sleep") => updater'.timer = 10
  /\ (updater.pc = "sleep" /\ updater'.pc # "sleep")
       => (updater.timer = 0 /\ updater'.pc = "get")
  /\ Started => Started'

C24_PollsForEver ==
  /\ [][C24_SleepStep]_vars
  /\ [](Started => <>(updater.pc = "get"))
  /\ \A q \in Quotes :
       <>[](upstream = [k |-> "ok", usd |-> q])
         => <>[](Started => app_price = Truncated(q))

\* the loop back at its fetch after it replaced the "0" a client had been served
C24_Witness ==
  /\ updater.pc = "get"
  /\ updater.p = Number(97123, 1)
  /\ upstream = [k |-> "ok", usd |-> Number(97123, 1)]
  /\ app_price = "97123"
  /\ returned = "0"
  /\ lock = "free"

====
